---- MODULE Spec2Model ----
(***************************************************************************)
(* A model of the schema compilation pipeline of json-schema-to-ts:        *)
(* typeOfSchema / isTypeNullable (src/src/typeOfSchema.ts), parse          *)
(* (the parser, src/unnamed/part_002 lines 416-716) and generate           *)
(* (src/src/generator.ts).                                                 *)
(*                                                                         *)
(* Conventions.  An optional field of a JavaScript object is a sequence of *)
(* length 0 (the key is absent) or 1 (the key is present, with that        *)
(* value).  A string is a sequence of atoms: the words and separators the  *)
(* code's regular expressions tell apart.  A JSON value (a default, an     *)
(* enumeration literal) is a record [t, n]: its typeof-kind and a number   *)
(* that tells two values of one kind apart.                                *)
(***************************************************************************)
EXTENDS Integers, Sequences, FiniteSets, TLC

VARIABLES
    cnode,      \* SpecTypeOf: the schema node handed to typeOfSchema
    cres,       \* SpecTypeOf: what typeOfSchema returned or threw
    cpc,        \* SpecTypeOf: "ready" before the call, "classified" after
    schema,     \* the schema graph: node identity -> node (parse writes required)
    input,      \* the schema graph as it was handed to parse
    processed,  \* parse's cache, schema nodes: node identity -> AST identity (0: none)
    litCache,   \* parse's cache, literal keys: set of <<value, AST identity>>
    heap,       \* the AST objects allocated so far, by identity
    stack,      \* the activations of parseNonLiteral in progress, innermost last
    pc,         \* "start", "parsing", "done" (parse returned), "failed" (parse threw)
    err,        \* what parse threw
    result,     \* the AST identity parse returned
    runs,       \* node identity -> how often the body of parse ran for it
    returned,   \* every <<key, AST identity>> a call of parse has returned
    gpc,        \* "idle", "done" (generate returned), "failed" (generate threw)
    gerr,       \* what generate threw
    emitted,    \* the declarations of the text generate returned, in order
    vschema,    \* the schema handed to validate: node identity -> node
    errors,     \* validate's list of errors
    vrule,      \* the rule that rules.forEach has reached
    vtodo,      \* the nodes mapDeep has yet to call the rule for
    vpc,        \* "idle", "running", "done" (validate returned)
    kpc,        \* compile: "idle", "validate", "normalized", "dereferenced", "returned", "failed"
    compiled    \* what compile returned: None, or Some(text)

cvars == <<cnode, cres, cpc>>
pvars == <<schema, input, processed, litCache, heap, stack, pc, err, result, runs, returned>>
gvars == <<gpc, gerr, emitted>>
vvars == <<vschema, errors, vrule, vtodo, vpc>>
kvars == <<kpc, compiled>>
vars == <<cvars, pvars, gvars, vvars, kvars>>

(***************************************************************************)
(* Bounds                                                                  *)
(***************************************************************************)
\* longest type string, in atoms
MaxTypeAtoms == 2
\* longest type array
MaxTypeArr == 3
\* number of nodes of a schema graph
NumNodes == 3

(***************************************************************************)
(* Optional fields, strings, values                                        *)
(***************************************************************************)
None == <<>>
Some(x) == <<x>>
Has(f) == Len(f) = 1

RECURSIVE SeqsUpTo(_, _)
SeqsUpTo(S, n) ==
    IF n = 0 THEN {<<>>}
    ELSE LET shorter == SeqsUpTo(S, n - 1)
         IN  shorter \cup {Append(s, x) : s \in {t \in shorter : Len(t) = n - 1}, x \in S}

Range(s) == {s[i] : i \in 1..Len(s)}

\* the atoms of a type string: JSON type names, a word that is no JSON type,
\* and the separators that extractType and isTypeNullable look for
TypeAtoms == {"string", "number", "integer", "boolean", "object", "array", "null", "any", ",", " "}
\* the entries a type array is drawn from (one-atom strings)
ArrayEntryAtoms == {"string", "object", "null", "any"}

StrNull == <<"null">>

(***************************************************************************)
(* typeOfSchema.ts                                                         *)
(***************************************************************************)
\* schema.type: absent, a string, or an array of strings
TypeAbsent == [k |-> "absent", s |-> <<>>, a |-> <<>>]
TypeStr(s) == [k |-> "string", s |-> s, a |-> <<>>]
TypeArr(a) == [k |-> "array", s |-> <<>>, a |-> a]

Ok(v) == [ok |-> TRUE, val |-> v]
Throw(e) == [ok |-> FALSE, val |-> e]

\* schemaType.replace(/(\s|,|null)/g, '')
extractType(schemaType) ==
    SelectSeq(schemaType, LAMBDA c : c \notin {" ", ",", "null"})

\* SwitchOnType with a case for 'array', as if a bare array type were supported
SwitchOnType_arrayCase(t) ==
    IF t.k = "absent" THEN Ok("NAMED_SCHEMA")
    ELSE LET x == extractType(t.s)
         IN  CASE x = <<"string">>  -> Ok("STRING")
               [] x = <<"number">>  -> Ok("NUMBER")
               [] x = <<"integer">> -> Ok("NUMBER")
               [] x = <<"boolean">> -> Ok("BOOLEAN")
               [] x = <<"object">>  -> Ok("NAMED_SCHEMA")
               [] x = <<"array">>   -> Ok("TYPED_ARRAY")
               [] OTHER             -> Throw("UnsupportedType")

\* the switch of typeOfSchema on extractType(schemaType), schemaType a string
\* or undefined
SwitchOnType(t) ==
    IF t.k = "absent" THEN Ok("NAMED_SCHEMA")
    ELSE LET x == extractType(t.s)
         IN  CASE x = <<"string">>  -> Ok("STRING")
               [] x = <<"number">>  -> Ok("NUMBER")
               [] x = <<"integer">> -> Ok("NUMBER")
               [] x = <<"boolean">> -> Ok("BOOLEAN")
               [] x = <<"object">>  -> Ok("NAMED_SCHEMA")
               [] OTHER             -> Throw("UnsupportedType")

\* ClassifyType without the test that a two-entry array holds a null
ClassifyType_noNullTest(t) ==
    IF t.k = "array"
    THEN LET typeInArray == SelectSeq(t.a, LAMBDA e : e # StrNull)
         IN  IF Len(t.a) = 0 THEN Throw("EmptyTypeArray")
             ELSE IF Len(t.a) > 2 THEN Throw("TooManyTypes")
             ELSE IF Len(typeInArray) = 0 THEN Ok("NULL")
             ELSE SwitchOnType(TypeStr(typeInArray[1]))
    ELSE IF t.k = "string" /\ t.s = StrNull THEN Ok("NULL")
    ELSE SwitchOnType(t)

\* typeOfSchema once none of allOf/anyOf/oneOf/$ref/items/enum matched
ClassifyType(t) ==
    IF t.k = "array"
    THEN LET typeInArray == SelectSeq(t.a, LAMBDA e : e # StrNull)
         IN  IF Len(t.a) = 0 THEN Throw("EmptyTypeArray")
             ELSE IF Len(t.a) > 2 THEN Throw("TooManyTypes")
             ELSE IF Len(t.a) = 2 /\ StrNull \notin Range(t.a) THEN Throw("NoNullInTypeArray")
             ELSE IF Len(typeInArray) = 0 THEN Ok("NULL")
             ELSE IF typeInArray[1] = StrNull THEN Ok("NULL")
             ELSE SwitchOnType(TypeStr(typeInArray[1]))
    ELSE IF t.k = "string" /\ t.s = StrNull THEN Ok("NULL")
    ELSE SwitchOnType(t)

\* JavaScript truthiness of schema.$ref: a non-empty string
RefTruthy(s) == Has(s.ref) /\ s.ref[1] # ""

\* typeOfSchema with $ref tested after items and enum
typeOfSchema_refLate(s) ==
    IF Has(s.allOf) THEN Ok("ALL_OF")
    ELSE IF Has(s.anyOf) THEN Ok("ANY_OF")
    ELSE IF Has(s.oneOf) THEN Ok("ONE_OF")
    ELSE IF Has(s.items) THEN Ok("TYPED_ARRAY")
    ELSE IF Has(s.enum) THEN Ok("ENUM")
    ELSE IF RefTruthy(s) THEN Ok("REFERENCE")
    ELSE ClassifyType(s.type)

\* typeOfSchema telling a node without title and id apart as UNNAMED_SCHEMA
typeOfSchema_unnamed(s) ==
    IF Has(s.allOf) THEN Ok("ALL_OF")
    ELSE IF Has(s.anyOf) THEN Ok("ANY_OF")
    ELSE IF Has(s.oneOf) THEN Ok("ONE_OF")
    ELSE IF RefTruthy(s) THEN Ok("REFERENCE")
    ELSE IF Has(s.items) THEN Ok("TYPED_ARRAY")
    ELSE IF Has(s.enum) THEN Ok("ENUM")
    ELSE IF s.type.k = "absent" /\ s.title = <<>> /\ s.id = <<>> THEN Ok("UNNAMED_SCHEMA")
    ELSE ClassifyType(s.type)

typeOfSchema(s) ==
    IF Has(s.allOf) THEN Ok("ALL_OF")
    ELSE IF Has(s.anyOf) THEN Ok("ANY_OF")
    ELSE IF Has(s.oneOf) THEN Ok("ONE_OF")
    ELSE IF RefTruthy(s) THEN Ok("REFERENCE")
    ELSE IF Has(s.items) THEN Ok("TYPED_ARRAY")
    ELSE IF Has(s.enum) THEN Ok("ENUM")
    ELSE ClassifyType(s.type)

\* rawType.split(/\s*,\s*/): cut at every comma, the white space around a
\* comma belonging to the separator
RECURSIVE CutAtCommas(_)
CutAtCommas(s) ==
    IF \A i \in 1..Len(s) : s[i] # ","
    THEN <<s>>
    ELSE LET i == CHOOSE j \in 1..Len(s) : s[j] = "," /\ \A h \in 1..(j - 1) : s[h] # ","
         IN  <<SubSeq(s, 1, i - 1)>> \o CutAtCommas(SubSeq(s, i + 1, Len(s)))

RECURSIVE DropLeadingSpace(_)
DropLeadingSpace(s) ==
    IF Len(s) > 0 /\ s[1] = " " THEN DropLeadingSpace(Tail(s)) ELSE s

RECURSIVE DropTrailingSpace(_)
DropTrailingSpace(s) ==
    IF Len(s) > 0 /\ s[Len(s)] = " " THEN DropTrailingSpace(SubSeq(s, 1, Len(s) - 1)) ELSE s

SplitTypes(s) ==
    LET parts == CutAtCommas(s)
    IN  [i \in 1..Len(parts) |->
            LET afterComma == IF i > 1 THEN DropLeadingSpace(parts[i]) ELSE parts[i]
            IN  IF i < Len(parts) THEN DropTrailingSpace(afterComma) ELSE afterComma]

\* isTypeNullable that looks at type arrays only
isTypeNullable_arraysOnly(s) ==
    LET t == s.type
    IN  IF t.k # "array" THEN Ok(FALSE)
        ELSE IF Len(t.a) = 1 \/ Len(SelectSeq(t.a, LAMBDA e : e # StrNull)) = 0 THEN Ok(FALSE)
        ELSE IF StrNull \notin Range(t.a) THEN Throw("MultipleTypesNeedNull")
        ELSE IF Len(t.a) # 2 THEN Throw("OnlyOneNonNullType")
        ELSE Ok(TRUE)

\* isTypeNullable(schema)
isTypeNullable(s) ==
    LET t == s.type
        truthy == t.k = "array" \/ (t.k = "string" /\ t.s # <<>>)
        types == IF t.k = "string" THEN SplitTypes(t.s) ELSE t.a
    IN  IF ~truthy THEN Ok(FALSE)
        ELSE IF Len(types) = 1 \/ Len(SelectSeq(types, LAMBDA e : e # StrNull)) = 0 THEN Ok(FALSE)
        ELSE IF StrNull \notin Range(types) THEN Throw("MultipleTypesNeedNull")
        ELSE IF Len(types) # 2 THEN Throw("OnlyOneNonNullType")
        ELSE Ok(TRUE)

(***************************************************************************)
(* Schema nodes                                                            *)
(***************************************************************************)
\* A JSON value: typeof-kind and a tag.  Undefined is the absent default.
Val(t, n) == [t |-> t, n |-> n]
Undefined == Val("undefined", 0)
JNull == Val("null", 0)

\* A schema node.  title and id are strings (the empty sequence when
\* absent); the composition keys, items and enum hold the identities of the
\* child nodes; properties is the ordered list of [key, node] pairs.
Node(title, id, allOf, anyOf, oneOf, ref, items, enum, type, properties, required, default, nullable, minItems, maxItems) ==
    [title |-> title, id |-> id, allOf |-> allOf, anyOf |-> anyOf, oneOf |-> oneOf,
     ref |-> ref, items |-> items, enum |-> enum, type |-> type,
     properties |-> properties, required |-> required, default |-> default,
     nullable |-> nullable, minItems |-> minItems, maxItems |-> maxItems]

\* a node that has only a type
Leaf(title, type) ==
    Node(title, <<>>, None, None, None, None, None, None, type, None, None, Undefined, FALSE, 0, 0)

(***************************************************************************)
(* SpecTypeOf: typeOfSchema applied to one node                            *)
(***************************************************************************)
TypeStrings == SeqsUpTo(TypeAtoms, MaxTypeAtoms)
TypeArrays == SeqsUpTo({<<a>> : a \in ArrayEntryAtoms}, MaxTypeArr)
TypeFields == {TypeAbsent} \cup {TypeStr(s) : s \in TypeStrings} \cup {TypeArr(a) : a \in TypeArrays}

\* the keys typeOfSchema tests are present or absent independently; a
\* present list is empty here, because typeOfSchema never looks inside
PresentOrNot == {None, Some(<<>>)}
Names == {<<>>, <<"Person">>}

ClassifierInputs ==
    {Node(n[1], n[2], k[1], k[2], k[3], r, k[4], k[5], t, None, None, Undefined, FALSE, 0, 0) :
        n \in {<<<<>>, <<>>>>, <<<<"Person">>, <<>>>>, <<<<>>, <<"person.json">>>>},
        k \in PresentOrNot \X PresentOrNot \X PresentOrNot
                \X {None, Some([isArray |-> FALSE, kids |-> <<>>])}
                \X PresentOrNot,
        r \in {None, Some(""), Some("#/definitions/person")},
        t \in TypeFields}

NotClassified == [ok |-> FALSE, val |-> "NotCalled"]

NoErr == [kind |-> "", key |-> "", schemaId |-> <<>>]

\* validate is not running
ValidateIdle ==
    /\ vschema = <<>>
    /\ errors = <<>>
    /\ vrule = 0
    /\ vtodo = <<>>
    /\ vpc = "idle"

\* compile is not running
CompileIdle ==
    /\ kpc = "idle"
    /\ compiled = <<>>

\* generate is not running
GenerateIdle ==
    /\ gpc = "idle"
    /\ gerr = ""
    /\ emitted = <<>>

\* parse is not running
ParseIdle ==
    /\ schema = <<>>
    /\ input = <<>>
    /\ processed = <<>>
    /\ litCache = {}
    /\ heap = <<>>
    /\ stack = <<>>
    /\ pc = "idle"
    /\ err = NoErr
    /\ result = 0
    /\ runs = <<>>
    /\ returned = {}
    /\ GenerateIdle

\* the classifier is not running
ClassifyIdle ==
    /\ cnode = Leaf(<<>>, TypeAbsent)
    /\ cres = NotClassified
    /\ cpc = "idle"

InitTypeOf ==
    /\ cnode \in ClassifierInputs
    /\ cres = NotClassified
    /\ cpc = "ready"
    /\ ParseIdle
    /\ ValidateIdle
    /\ CompileIdle

Classify ==
    /\ cpc = "ready"
    /\ cres' = typeOfSchema(cnode)
    /\ cpc' = "classified"
    /\ UNCHANGED <<cnode, pvars, gvars, vvars, kvars>>

NextTypeOf == Classify

SpecTypeOf == InitTypeOf /\ [][NextTypeOf]_vars

(***************************************************************************)
(* Claims about typeOfSchema (SpecTypeOf)                                  *)
(***************************************************************************)
Classified == cpc = "classified"

\* a key counts as present the way the code tests it: by truthiness
KeyPresent(s, key) ==
    CASE key = "allOf" -> Has(s.allOf)
      [] key = "anyOf" -> Has(s.anyOf)
      [] key = "oneOf" -> Has(s.oneOf)
      [] key = "$ref"  -> Has(s.ref) /\ s.ref[1] # ""
      [] key = "items" -> Has(s.items)
      [] key = "enum"  -> Has(s.enum)

RuleOrder == <<"allOf", "anyOf", "oneOf", "$ref", "items", "enum">>
RuleResult == <<"ALL_OF", "ANY_OF", "ONE_OF", "REFERENCE", "TYPED_ARRAY", "ENUM">>
NoRuleKey(s) == \A i \in 1..Len(RuleOrder) : ~KeyPresent(s, RuleOrder[i])
TypeCategories == {"NULL", "STRING", "NUMBER", "BOOLEAN", "NAMED_SCHEMA"}

\* C1: the result is that of the first key present in the order allOf, anyOf,
\* oneOf, $ref, items, enum, whatever the type and the other keys are; a
\* category of the type field comes out only when none of the keys is there.
C1_FirstMatchWins ==
    Classified =>
        /\ \A i \in 1..Len(RuleOrder) :
              (KeyPresent(cnode, RuleOrder[i]) /\ \A j \in 1..(i - 1) : ~KeyPresent(cnode, RuleOrder[j]))
                  => cres = Ok(RuleResult[i])
        /\ (cres.ok /\ cres.val \in TypeCategories) => NoRuleKey(cnode)
        /\ ~cres.ok => NoRuleKey(cnode)

\* C1 witness: a node with a $ref, items, enum and a string type is a reference
C1_Witness ==
    /\ Classified
    /\ KeyPresent(cnode, "$ref") /\ Has(cnode.items) /\ Has(cnode.enum)
    /\ cnode.type = TypeStr(<<"string">>)
    /\ cres = Ok("REFERENCE")

NullCount(a) == Len(SelectSeq(a, LAMBDA e : e = StrNull))
ShapeErrors == {"EmptyTypeArray", "TooManyTypes", "NoNullInTypeArray"}
TypeArrayCase == Classified /\ NoRuleKey(cnode) /\ cnode.type.k = "array"

\* what one word of a type gives, by the list of the supported JSON types
WordResult(w) ==
    CASE w = "string"  -> Ok("STRING")
      [] w = "number"  -> Ok("NUMBER")
      [] w = "integer" -> Ok("NUMBER")
      [] w = "boolean" -> Ok("BOOLEAN")
      [] w = "object"  -> Ok("NAMED_SCHEMA")
      [] OTHER         -> Throw("UnsupportedType")

\* C2 as stated: a type array with 0 entries, more than 2 entries, or 2
\* entries of which neither or both are null, fails with a shape error.
C2_AsClaimed ==
    TypeArrayCase =>
        LET a == cnode.type.a
        IN  (Len(a) = 0 \/ Len(a) > 2 \/ (Len(a) = 2 /\ NullCount(a) \in {0, 2}))
                => (~cres.ok /\ cres.val \in ShapeErrors)

\* C2 amended: a type array fails with a shape error exactly when it is
\* empty, has more than 2 entries, or has 2 entries neither of which is null;
\* an accepted array whose entries are all null is NULL, and any other
\* accepted array is classified as its one non-null entry is as a type string.
C2_TypeArrays ==
    TypeArrayCase =>
        LET a == cnode.type.a
            nonNull == SelectSeq(a, LAMBDA e : e # StrNull)
        IN  /\ Len(a) = 0 => cres = Throw("EmptyTypeArray")
            /\ Len(a) > 2 => cres = Throw("TooManyTypes")
            /\ (Len(a) = 2 /\ NullCount(a) = 0) => cres = Throw("NoNullInTypeArray")
            /\ (Len(a) \in {1, 2} /\ NullCount(a) = Len(a)) => cres = Ok("NULL")
            /\ (Len(a) \in {1, 2} /\ Len(nonNull) = 1) => cres = WordResult(nonNull[1][1])

\* C2 witness: ['null', 'null'] is accepted as NULL
C2_Witness ==
    TypeArrayCase /\ cnode.type.a = <<StrNull, StrNull>> /\ cres = Ok("NULL")

SingleStringCase == Classified /\ NoRuleKey(cnode) /\ cnode.type.k = "string"
Separators == {" ", ",", "null"}
\* the words of a type string that are not a separator or null
Words(s) == SelectSeq(s, LAMBDA c : c \notin Separators)

\* C3 as stated: each JSON type name gives its category, array an array
\* shape, and every other type string fails as unsupported.
C3_AsClaimed ==
    SingleStringCase =>
        LET t == cnode.type.s
        IN  CASE t = <<"null">>  -> cres = Ok("NULL")
              [] t = <<"array">> -> cres = Ok("TYPED_ARRAY")
              [] t \in {<<"string">>, <<"number">>, <<"integer">>, <<"boolean">>, <<"object">>}
                                 -> cres = WordResult(t[1])
              [] OTHER           -> cres = Throw("UnsupportedType")

\* C3 amended: the string 'null' gives NULL; otherwise white space, commas and
\* every 'null' are dropped from the type string and what is left decides:
\* string, number, integer, boolean and object give their category, and array,
\* any other word, several words and nothing at all fail as unsupported.
C3_SingleType ==
    SingleStringCase =>
        LET t == cnode.type.s
            w == Words(t)
        IN  IF t = <<"null">> THEN cres = Ok("NULL")
            ELSE IF Len(w) = 1 THEN cres = WordResult(w[1])
            ELSE cres = Throw("UnsupportedType")

\* C3 witness: the type 'array' alone is unsupported, 'string, null' is a string
C3_Witness ==
    /\ SingleStringCase
    /\ \/ cnode.type.s = <<"array">> /\ cres = Throw("UnsupportedType")
       \/ cnode.type.s = <<"string", ",">> /\ cres = Ok("STRING")

NoTypeCase == Classified /\ NoRuleKey(cnode) /\ cnode.type.k = "absent"
HasName(s) == s.title # <<>> \/ s.id # <<>>

\* C4 as stated: without a type, a node with a title or id is a named object
\* and a node without is an unnamed object.
C4_AsClaimed ==
    NoTypeCase => cres = (IF HasName(cnode) THEN Ok("NAMED_SCHEMA") ELSE Ok("UNNAMED_SCHEMA"))

\* C4 amended: without a type (and without the six keys) the node is
\* NAMED_SCHEMA whether or not it has a title or an id; UNNAMED_SCHEMA is
\* never the result of typeOfSchema.
C4_NoType ==
    /\ NoTypeCase => cres = Ok("NAMED_SCHEMA")
    /\ Classified => cres # Ok("UNNAMED_SCHEMA")

\* C4 witness: a node with no type, no title and no id classified NAMED_SCHEMA
C4_Witness ==
    NoTypeCase /\ ~HasName(cnode) /\ cres = Ok("NAMED_SCHEMA")

(***************************************************************************)
(* The parser: parse, parseLiteral, parseNonLiteral, newInterface,         *)
(* validateDefault, parseSchema                                            *)
(***************************************************************************)
\* An AST object.  {} as AST, before set() has filled it, has type "EMPTY".
Ast(type, keyName, params, members, standaloneName, lit, minItems, maxItems) ==
    [type |-> type, keyName |-> keyName, params |-> params, members |-> members,
     standaloneName |-> standaloneName, lit |-> lit, minItems |-> minItems,
     maxItems |-> maxItems]

EmptyAst == Ast("EMPTY", <<>>, <<>>, <<>>, <<>>, Undefined, 0, 0)

\* hasStandaloneName of types/AST: the AST has a non-empty standaloneName
hasStandaloneName(ast) == ast.standaloneName # <<>>

\* schema.title || schema.id || ''
standaloneName(s) == IF s.title # <<>> THEN s.title ELSE s.id

\* name.replace('.json', ''): the first '.json' goes
RECURSIVE StripJson(_)
StripJson(name) ==
    IF name = <<>> THEN <<>>
    ELSE IF Head(name) = ".json" THEN Tail(name)
    ELSE <<Head(name)>> \o StripJson(Tail(name))

\* the text of a literal inside enum.join('_')
LitText(v) ==
    CASE v.t = "string" -> IF v.n = 1 THEN "red" ELSE "green"
      [] v.t = "number" -> IF v.n = 0 THEN "0" ELSE "16"
      [] v.t = "boolean" -> IF v.n = 0 THEN "false" ELSE "true"
      [] OTHER -> ""

RECURSIVE JoinLits(_)
JoinLits(lits) ==
    IF Len(lits) = 0 THEN <<>>
    ELSE IF Len(lits) = 1 THEN <<LitText(lits[1])>>
    ELSE <<LitText(lits[1]), "_">> \o JoinLits(Tail(lits))

\* validateDefault(ast, defaultValue)
validateDefault(ast, d) ==
    CASE ast.type \in {"ARRAY", "TUPLE"} -> Ok(d.t = "array" /\ d.n = 0)
      [] ast.type = "BOOLEAN" -> Ok(d.t = "boolean")
      [] ast.type \in {"INTERFACE", "INTERSECTION", "OBJECT", "REFERENCE", "UNION"} -> Ok(d = JNull)
      [] ast.type = "LITERAL" -> Ok(d.t \in {"string", "number", "boolean"})
      [] ast.type = "NUMBER" -> Ok(d.t = "number")
      [] ast.type = "NULL" -> Ok(d = JNull)
      [] ast.type = "STRING" -> Ok(d.t = "string")
      [] OTHER -> Throw("UnknownAstType")

\* the nodes a node holds as values of its own keys
Children(s) ==
    (IF Has(s.allOf) THEN Range(s.allOf[1]) ELSE {})
    \cup (IF Has(s.anyOf) THEN Range(s.anyOf[1]) ELSE {})
    \cup (IF Has(s.oneOf) THEN Range(s.oneOf[1]) ELSE {})
    \cup (IF Has(s.items) THEN Range(s.items[1].kids) ELSE {})
    \cup (IF Has(s.properties) THEN {q.node : q \in Range(s.properties[1])} ELSE {})

RECURSIVE ReachFrom(_, _, _)
ReachFrom(S, frontier, seen) ==
    LET next == UNION {Children(S[n]) : n \in frontier} \ seen
    IN  IF next = {} THEN seen ELSE ReachFrom(S, next, seen \cup next)

\* the nodes below n, n itself only if it lies on a cycle
Below(S, n) == ReachFrom(S, {n}, {})

\* JSON.stringify(node) throws 'Converting circular structure to JSON': some
\* object at or below the node contains itself
Circular(S, n) == \E m \in Below(S, n) \cup {n} : m \in Below(S, m)

\* An activation of parseNonLiteral that has children to parse: the node, its
\* AST object, the AST type it will set, the children (and, for an
\* interface, their keys), the index of the next child, the results so far.
Frame(node, ast, kind, kids, keys, keyName, name) ==
    [node |-> node, ast |-> ast, kind |-> kind, kids |-> kids, keys |-> keys,
     i |-> 1, acc |-> <<>>, members |-> <<>>, keyName |-> keyName, name |-> name,
     req |-> FALSE]

NoFrame == Frame(0, 0, "", <<>>, <<>>, <<>>, <<>>)

Failure(kind, key, schemaId) == [kind |-> kind, key |-> key, schemaId |-> schemaId]

\* parse(literal, ..., isSchema = false) for each entry of an enum, in order:
\* a literal already in the cache gives its AST, a new one gets a LITERAL AST
RECURSIVE ParseLiterals(_, _, _, _)
ParseLiterals(lits, H, L, ids) ==
    IF Len(lits) = 0 THEN [heap |-> H, litCache |-> L, ids |-> ids]
    ELSE LET v == Head(lits)
             hit == {e \in L : e[1] = v}
         IN  IF hit # {}
             THEN ParseLiterals(Tail(lits), H, L, Append(ids, (CHOOSE e \in hit : TRUE)[2]))
             ELSE ParseLiterals(Tail(lits),
                                Append(H, Ast("LITERAL", <<>>, <<>>, <<>>, <<>>, v, 0, 0)),
                                L \cup {<<v, Len(H) + 1>>},
                                Append(ids, Len(H) + 1))

RootNode == 1

\* rootSchema.oneOf || rootSchema.anyOf
RootIsAlternatives(S) == Has(S[RootNode].oneOf) \/ Has(S[RootNode].anyOf)

InternalName(S, suffix) == StripJson(standaloneName(S[RootNode])) \o <<"_internal_">> \o suffix

Entered(out, S, H, L, frame, e) ==
    [out |-> out, schema |-> S, heap |-> H, litCache |-> L, frame |-> frame, e |-> e]

\* newInterface up to its call of parseSchema: the name of the interface, the
\* required list it writes on an unnamed object under a oneOf/anyOf root
newInterface(S, H, L, n, a, keyName) ==
    LET s == S[n]
        name == standaloneName(s)
        props == IF Has(s.properties) THEN s.properties[1] ELSE <<>>
        kids == [j \in 1..Len(props) |-> props[j].node]
        keys == [j \in 1..Len(props) |-> props[j].key]
    IN  IF name = <<>> /\ RootIsAlternatives(S)
        THEN IF ~Has(s.properties)
             THEN Entered("throw", S, H, L, NoFrame, Failure("TypeError", "", <<>>))
             ELSE IF Len(props) # 1
             THEN Entered("throw", S, H, L, NoFrame, Failure("OnePropertyOnly", "", <<>>))
             ELSE Entered("push", [S EXCEPT ![n].required = Some(<<keys[1]>>)], H, L,
                          Frame(n, a, "INTERFACE", kids, keys, keyName, InternalName(S, <<keys[1]>>)),
                          NoErr)
        ELSE Entered("push", S, H, L, Frame(n, a, "INTERFACE", kids, keys, keyName, name), NoErr)

\* parseNonLiteral(schema) up to its first recursive call of parse.  H already
\* holds the empty AST object a that parse has put in the cache for node n.
\* A node without children to parse is set() at once ("leaf"); for the
\* others a frame is pushed; a throw aborts the parse.
parseNonLiteral(S, H, L, n, a, keyName) ==
    LET s == S[n]
        c == typeOfSchema(s)
        name == standaloneName(s)
        leaf(type) == Entered("leaf", S, [H EXCEPT ![a] = Ast(type, keyName, <<>>, <<>>, name, Undefined, 0, 0)],
                              L, NoFrame, NoErr)
        push(kind, kids) == Entered("push", S, H, L, Frame(n, a, kind, kids, <<>>, keyName, name), NoErr)
    IN  IF ~c.ok THEN Entered("throw", S, H, L, NoFrame, Failure(c.val, "", <<>>))
        ELSE CASE c.val = "ALL_OF" -> push("INTERSECTION", s.allOf[1])
               [] c.val = "ANY_OF" -> push("UNION", s.anyOf[1])
               [] c.val = "ONE_OF" -> push("UNION", s.oneOf[1])
               [] c.val = "BOOLEAN" -> leaf("BOOLEAN")
               [] c.val = "NULL" -> leaf("NULL")
               [] c.val = "NUMBER" -> leaf("NUMBER")
               [] c.val = "STRING" -> leaf("STRING")
               [] c.val = "NAMED_SCHEMA" -> newInterface(S, H, L, n, a, keyName)
               [] c.val = "REFERENCE" -> Entered("throw", S, H, L, NoFrame, Failure("UnresolvedRef", "", <<>>))
               [] c.val = "TYPED_ARRAY" ->
                    IF s.items[1].isArray THEN push("TUPLE", s.items[1].kids)
                    ELSE push("ARRAY", s.items[1].kids)
               [] c.val = "ENUM" ->
                    LET enumName == IF RootIsAlternatives(S) /\ name = <<>>
                                    THEN InternalName(S, JoinLits(s.enum[1]))
                                    ELSE name
                        lits == ParseLiterals(s.enum[1], H, L, <<>>)
                    IN  Entered("leaf", S,
                                [lits.heap EXCEPT ![a] = Ast("ENUM", keyName, lits.ids, <<>>, enumName, Undefined, 0, 0)],
                                lits.litCache, NoFrame, NoErr)

\* BeforeChild without the test for a missing default
BeforeChild_noDefaultTest(S, f) ==
    LET c == f.kids[f.i]
        v == S[c]
    IN  CASE f.kind = "UNION" ->
                IF Has(v.properties) /\ Len(v.properties[1]) > 0 /\ ~Has(v.required)
                THEN [ok |-> TRUE, schema |-> [S EXCEPT ![c].required = Some(<<v.properties[1][1].key>>)],
                      req |-> FALSE, e |-> NoErr]
                ELSE [ok |-> TRUE, schema |-> S, req |-> FALSE, e |-> NoErr]
          [] f.kind = "INTERFACE" ->
                LET key == f.keys[f.i]
                    required == Has(S[f.node].required) /\ key \in Range(S[f.node].required[1])
                IN  IF Circular(S, f.node)
                    THEN [ok |-> FALSE, schema |-> S, req |-> required, e |-> Failure("CircularJSON", "", <<>>)]
                    ELSE [ok |-> TRUE, schema |-> S, req |-> required, e |-> NoErr]
          [] OTHER -> [ok |-> TRUE, schema |-> S, req |-> FALSE, e |-> NoErr]

\* What the caller does between reading child i of its list and calling
\* parse for it.  A union infers the required list of a branch with
\* properties; parseSchema computes required, logs the schema and the
\* property with JSON.stringify, and refuses a property that is neither
\* required nor has a default.
BeforeChild(S, f) ==
    LET c == f.kids[f.i]
        v == S[c]
    IN  CASE f.kind = "UNION" ->
                IF Has(v.properties) /\ Len(v.properties[1]) > 0 /\ ~Has(v.required)
                THEN [ok |-> TRUE, schema |-> [S EXCEPT ![c].required = Some(<<v.properties[1][1].key>>)],
                      req |-> FALSE, e |-> NoErr]
                ELSE [ok |-> TRUE, schema |-> S, req |-> FALSE, e |-> NoErr]
          [] f.kind = "INTERFACE" ->
                LET key == f.keys[f.i]
                    required == Has(S[f.node].required) /\ key \in Range(S[f.node].required[1])
                IN  IF Circular(S, f.node)
                    THEN [ok |-> FALSE, schema |-> S, req |-> required, e |-> Failure("CircularJSON", "", <<>>)]
                    ELSE IF ~required /\ v.default = Undefined
                    THEN [ok |-> FALSE, schema |-> S, req |-> required,
                          e |-> Failure("MissingDefault", key, S[f.node].id)]
                    ELSE [ok |-> TRUE, schema |-> S, req |-> required, e |-> NoErr]
          [] OTHER -> [ok |-> TRUE, schema |-> S, req |-> FALSE, e |-> NoErr]

\* the default as the member record holds it: a string in quotes
RenderedDefault(d) == IF d.t = "string" THEN Val("quoted", d.n) ELSE d

\* AfterChild that checks the kind of non-null defaults only: a null default
\* passes once the AST has a name
AfterChild_nameSuffices(S, H, f, a) ==
    IF f.kind # "INTERFACE"
    THEN [ok |-> TRUE, frame |-> [f EXCEPT !.i = @ + 1, !.acc = Append(@, a)], e |-> NoErr]
    ELSE LET v == S[f.kids[f.i]]
             key == f.keys[f.i]
             sid == S[f.node].id
             nb == IF v.nullable THEN Ok(TRUE) ELSE isTypeNullable(v)
             vd == validateDefault(H[a], v.default)
             fail(kind) == [ok |-> FALSE, frame |-> f, e |-> Failure(kind, "", sid)]
         IN  IF ~nb.ok THEN [ok |-> FALSE, frame |-> f, e |-> Failure(nb.val, "", <<>>)]
             ELSE IF v.default = JNull /\ ~nb.val /\ ~hasStandaloneName(H[a]) THEN fail("NullDefault")
             ELSE IF ~nb.val /\ v.default \notin {Undefined, JNull} /\ ~vd.ok
             THEN [ok |-> FALSE, frame |-> f, e |-> Failure(vd.val, "", <<>>)]
             ELSE IF ~nb.val /\ v.default \notin {Undefined, JNull} /\ ~vd.val THEN fail("NotValidDefault")
             ELSE [ok |-> TRUE,
                   frame |-> [f EXCEPT !.i = @ + 1,
                                       !.members = Append(@, [ast |-> a, isRequired |-> f.req,
                                                              isNullable |-> nb.val, keyName |-> key,
                                                              default |-> RenderedDefault(v.default)])],
                   e |-> NoErr]

\* What the caller does with the AST that parse returned for child i: a list
\* keeps it; parseSchema checks the default of the property against it and
\* makes the member record.
AfterChild(S, H, f, a) ==
    IF f.kind # "INTERFACE"
    THEN [ok |-> TRUE, frame |-> [f EXCEPT !.i = @ + 1, !.acc = Append(@, a)], e |-> NoErr]
    ELSE LET v == S[f.kids[f.i]]
             key == f.keys[f.i]
             sid == S[f.node].id
             nb == IF v.nullable THEN Ok(TRUE) ELSE isTypeNullable(v)
             vd == validateDefault(H[a], v.default)
             fail(kind) == [ok |-> FALSE, frame |-> f, e |-> Failure(kind, "", sid)]
         IN  IF ~nb.ok THEN [ok |-> FALSE, frame |-> f, e |-> Failure(nb.val, "", <<>>)]
             ELSE IF v.default = JNull /\ ~nb.val /\ ~hasStandaloneName(H[a]) THEN fail("NullDefault")
             ELSE IF ~nb.val /\ v.default # Undefined /\ ~vd.ok
             THEN [ok |-> FALSE, frame |-> f, e |-> Failure(vd.val, "", <<>>)]
             ELSE IF ~nb.val /\ v.default # Undefined /\ ~vd.val THEN fail("NotValidDefault")
             ELSE [ok |-> TRUE,
                   frame |-> [f EXCEPT !.i = @ + 1,
                                       !.members = Append(@, [ast |-> a, isRequired |-> f.req,
                                                              isNullable |-> nb.val, keyName |-> key,
                                                              default |-> RenderedDefault(v.default)])],
                   e |-> NoErr]

\* the AST that set() writes for a frame whose children are all parsed;
\* params lists the child ASTs (of an interface: those of its members)
Completed(S, f) ==
    Ast(f.kind, f.keyName,
        IF f.kind = "INTERFACE" THEN [j \in 1..Len(f.members) |-> f.members[j].ast] ELSE f.acc,
        f.members, f.name, Undefined,
        IF f.kind = "TUPLE" THEN S[f.node].minItems ELSE 0,
        IF f.kind = "TUPLE" THEN S[f.node].maxItems ELSE 0)

\* processed.set(schema, ast) without effect: the entry is never installed
CacheSet_skipped(P, n, a) == P

\* processed.set(schema, ast), before parseNonLiteral is called
CacheSet(P, n, a) == [P EXCEPT ![n] = a]

Top == stack[Len(stack)]
Callers == SubSeq(stack, 1, Len(stack) - 1)

Ret(n, a) == [node |-> n, lit |-> Undefined, ast |-> a]
LitRets(lits, ids) == {[node |-> 0, lit |-> lits[j], ast |-> ids[j]] : j \in 1..Len(lits)}
\* the literal calls a node's parse has made and that have returned
EnumRets(S, H, n, a) ==
    IF H[a].type = "ENUM" THEN LitRets(S[n].enum[1], H[a].params) ELSE {}

\* parse throws: nothing is returned; what was written to the schema stays
Fails(e, S) ==
    /\ pc' = "failed"
    /\ err' = e
    /\ schema' = S
    /\ stack' = <<>>
    /\ UNCHANGED <<input, processed, litCache, heap, result, runs, returned>>

\* the caller f (its frame already popped from rest) receives the AST a
Receives(S, H, rest, f, a) ==
    LET post == AfterChild(S, H, f, a)
    IN  IF post.ok
        THEN /\ stack' = Append(rest, post.frame)
             /\ pc' = "parsing"
             /\ err' = NoErr
             /\ schema' = S
        ELSE /\ stack' = <<>>
             /\ pc' = "failed"
             /\ err' = post.e
             /\ schema' = S

\* parse(schema): the top-level call, on an empty cache
Start ==
    /\ pc = "start"
    /\ LET e == parseNonLiteral(schema, <<EmptyAst>>, {}, RootNode, 1, <<>>)
       IN  /\ processed' = CacheSet(processed, RootNode, 1)
           /\ runs' = [runs EXCEPT ![RootNode] = 1]
           /\ schema' = e.schema
           /\ heap' = e.heap
           /\ litCache' = e.litCache
           /\ CASE e.out = "throw" ->
                     /\ pc' = "failed" /\ err' = e.e /\ stack' = <<>> /\ result' = 0
                     /\ returned' = returned
                [] e.out = "leaf" ->
                     /\ pc' = "done" /\ err' = NoErr /\ stack' = <<>> /\ result' = 1
                     /\ returned' = {Ret(RootNode, 1)} \cup EnumRets(e.schema, e.heap, RootNode, 1)
                [] e.out = "push" ->
                     /\ pc' = "parsing" /\ err' = NoErr /\ stack' = <<e.frame>> /\ result' = 0
                     /\ returned' = returned
    /\ UNCHANGED <<input, cvars, gvars, vvars, kvars>>

\* a recursive call parse(child) that finds the child in the cache
VisitCached ==
    /\ pc = "parsing"
    /\ Top.i <= Len(Top.kids)
    /\ processed[Top.kids[Top.i]] # 0
    /\ LET pre == BeforeChild(schema, Top)
           c == Top.kids[Top.i]
           a == processed[c]
       IN  IF ~pre.ok
           THEN Fails(pre.e, pre.schema)
           ELSE /\ Receives(pre.schema, heap, Callers, [Top EXCEPT !.req = pre.req], a)
                /\ returned' = returned \cup {Ret(c, a)}
                /\ UNCHANGED <<input, processed, litCache, heap, result, runs>>
    /\ UNCHANGED <<cvars, gvars, vvars, kvars>>

\* a recursive call parse(child) for a child that is not in the cache: the
\* empty AST object is cached, then parseNonLiteral runs up to its first
\* own recursive call
VisitNew ==
    /\ pc = "parsing"
    /\ Top.i <= Len(Top.kids)
    /\ processed[Top.kids[Top.i]] = 0
    /\ LET pre == BeforeChild(schema, Top)
           c == Top.kids[Top.i]
           a == Len(heap) + 1
           f == [Top EXCEPT !.req = pre.req]
           key == IF Top.kind = "INTERFACE" THEN <<Top.keys[Top.i]>> ELSE <<>>
           e == parseNonLiteral(pre.schema, Append(heap, EmptyAst), litCache, c, a, key)
       IN  IF ~pre.ok THEN Fails(pre.e, pre.schema)
           ELSE IF e.out = "throw" THEN Fails(e.e, e.schema)
           ELSE /\ processed' = CacheSet(processed, c, a)
                /\ runs' = [runs EXCEPT ![c] = @ + 1]
                /\ heap' = e.heap
                /\ litCache' = e.litCache
                /\ UNCHANGED <<input, result>>
                /\ IF e.out = "leaf"
                   THEN /\ Receives(e.schema, e.heap, Callers, f, a)
                        /\ returned' = returned \cup {Ret(c, a)} \cup EnumRets(e.schema, e.heap, c, a)
                   ELSE /\ stack' = Callers \o <<f, e.frame>>
                        /\ pc' = "parsing"
                        /\ err' = NoErr
                        /\ schema' = e.schema
                        /\ returned' = returned
    /\ UNCHANGED <<cvars, gvars, vvars, kvars>>

\* the innermost activation has parsed all its children: set() fills its AST
\* object and parse returns it, to the caller or out of the top-level call
Return ==
    /\ pc = "parsing"
    /\ Top.i > Len(Top.kids)
    /\ LET f == Top
           H == [heap EXCEPT ![f.ast] = Completed(schema, f)]
       IN  /\ heap' = H
           /\ returned' = returned \cup {Ret(f.node, f.ast)}
           /\ UNCHANGED <<input, processed, litCache, runs>>
           /\ IF Len(stack) = 1
              THEN /\ pc' = "done"
                   /\ result' = f.ast
                   /\ stack' = <<>>
                   /\ UNCHANGED <<err, schema>>
              ELSE /\ Receives(schema, H, SubSeq(stack, 1, Len(stack) - 2), stack[Len(stack) - 1], f.ast)
                   /\ UNCHANGED result
    /\ UNCHANGED <<cvars, gvars, vvars, kvars>>

(***************************************************************************)
(* generate: the text that it emits for the AST parse returned.  A text is *)
(* a sequence of tokens, a token is a string (a sequence of atoms); the    *)
(* blanks of the templates are left out, their line breaks are tokens.     *)
(***************************************************************************)
\* hasInternalStandaloneName of types/AST: the standalone name is one that
\* parse synthesized, it contains '_internal_'
hasInternalStandaloneName(ast) ==
    hasStandaloneName(ast) /\ "_internal_" \in Range(ast.standaloneName)

\* toSafeString of utils: the name as it stands in a declaration
toSafeString(name) == name

NoThrow == ""

\* the first throw of a list of calls made in order
FirstThrow(es) ==
    IF \E j \in DOMAIN es : es[j] # NoThrow
    THEN es[CHOOSE j \in DOMAIN es : es[j] # NoThrow /\ \A k \in 1..(j - 1) : es[k] = NoThrow]
    ELSE NoThrow

\* what a rendering function gives: the text it returns, or what it throws
Text(t) == [e |-> NoThrow, text |-> t]
Thrown(e) == [e |-> e, text |-> <<>>]

\* one token of one atom
Tok(s) == <<<<s>>>>
NL == Tok("\n")

\* texts.join(sep)
RECURSIVE Join(_, _)
Join(texts, sep) ==
    IF Len(texts) = 0 THEN <<>>
    ELSE IF Len(texts) = 1 THEN texts[1]
    ELSE texts[1] \o sep \o Join(Tail(texts), sep)

\* array.map(f) where f may throw: the first throw, or the texts
Mapped(rs) ==
    LET e == FirstThrow([j \in DOMAIN rs |-> rs[j].e])
    IN  [e |-> e, texts |-> [j \in DOMAIN rs |-> rs[j].text]]

\* the JavaScript engines that run the code: members.sort(comparefn) with a
\* comparefn that is no consistent comparator sorts as the engine's
\* algorithm happens to, by insertion (V8 before 7.0, arrays up to 10
\* elements) or by TimSort (V8 from 7.0 on, here below its minimal run)
Engines == {"insertion", "timsort"}

\* the comparator that never asks for an exchange
NullLast_never(a, b) == -1

\* (a, _b) => a === 'null' ? 1 : -1
NullLast(a, b) == IF a = <<"null">> THEN 1 ELSE -1

Reverse(s) == [j \in 1..Len(s) |-> s[Len(s) + 1 - j]]

\* insertion sort: the element moves left past every entry that compares
\* greater than it
RECURSIVE InsertFromRight(_, _)
InsertFromRight(sorted, x) ==
    IF Len(sorted) = 0 THEN <<x>>
    ELSE IF NullLast(sorted[Len(sorted)], x) > 0
    THEN Append(InsertFromRight(SubSeq(sorted, 1, Len(sorted) - 1), x), sorted[Len(sorted)])
    ELSE Append(sorted, x)

RECURSIVE InsertionSort(_, _)
InsertionSort(sorted, rest) ==
    IF Len(rest) = 0 THEN sorted
    ELSE InsertionSort(InsertFromRight(sorted, Head(rest)), Tail(rest))

\* TimSort, CountAndMakeRun: the length of the run that starts the array
RECURSIVE RunLength(_, _, _)
RunLength(s, len, descending) ==
    IF len >= Len(s) THEN len
    ELSE LET order == NullLast(s[len + 1], s[len])
         IN  IF (descending /\ order >= 0) \/ (~descending /\ order < 0) THEN len
             ELSE RunLength(s, len + 1, descending)

\* TimSort, BinaryInsertionSort: the place of the pivot in sorted[left+1..right]
RECURSIVE BinaryPlace(_, _, _, _)
BinaryPlace(sorted, pivot, left, right) ==
    IF left >= right THEN left
    ELSE LET mid == left + ((right - left) \div 2)
         IN  IF NullLast(pivot, sorted[mid + 1]) < 0
             THEN BinaryPlace(sorted, pivot, left, mid)
             ELSE BinaryPlace(sorted, pivot, mid + 1, right)

RECURSIVE BinaryInsertionSort(_, _)
BinaryInsertionSort(sorted, rest) ==
    IF Len(rest) = 0 THEN sorted
    ELSE LET at == BinaryPlace(sorted, Head(rest), 0, Len(sorted))
         IN  BinaryInsertionSort(SubSeq(sorted, 1, at) \o <<Head(rest)>>
                                    \o SubSeq(sorted, at + 1, Len(sorted)),
                                 Tail(rest))

TimSort(s) ==
    IF Len(s) < 2 THEN s
    ELSE LET descending == NullLast(s[2], s[1]) < 0
             run == RunLength(s, 2, descending)
             first == SubSeq(s, 1, run)
         IN  BinaryInsertionSort(IF descending THEN Reverse(first) ELSE first,
                                 SubSeq(s, run + 1, Len(s)))

\* members.sort((a, _b) => a === 'null' ? 1 : -1)
Sorted(members, engine) ==
    IF engine = "insertion" THEN InsertionSort(<<>>, members) ELSE TimSort(members)

\* keyName.length && /[A-Za-z_$]/.test(keyName.charAt(0)) && /^[\w$]+$/.test(keyName)
IdentifierKeys == {"a", "b"}
escapeKeyName(keyName) ==
    IF keyName \in IdentifierKeys THEN <<keyName>> ELSE <<"\"", keyName, "\"">>

\* `${ param.default }`: the default of the member record inside a template
DefaultText(d) ==
    CASE d.t = "quoted" -> <<<<"'", LitText(Val("string", d.n)), "'">>>>
      [] d.t = "string" -> Tok(LitText(d))
      [] d.t = "number" -> Tok(LitText(d))
      [] d.t = "boolean" -> Tok(LitText(d))
      [] d.t = "null" -> Tok("null")
      [] d.t = "undefined" -> Tok("undefined")
      [] d.t = "array" -> IF d.n = 0 THEN <<>> ELSE Tok("1")
      [] OTHER -> Tok("[object Object]")

\* JSON.stringify(ast.params) of a literal
LiteralText(v) ==
    IF v.t = "string" THEN <<<<"\"", LitText(v), "\"">>>> ELSE DefaultText(v)

\* generateRawType, T being what the switch of generateRawType gives for
\* every AST: the name of a named AST, else what the switch gives
generateRawType(T, H, a) ==
    IF hasStandaloneName(H[a]) THEN Text(<<toSafeString(H[a].standaloneName)>>) ELSE T[a]

generateType(T, H, a) == generateRawType(T, H, a)

\* array.map(f).join(sep): the first throw of f, or the joined texts
JoinMapped(rs, sep) ==
    IF Mapped(rs).e # NoThrow THEN Thrown(Mapped(rs).e) ELSE Text(Join(Mapped(rs).texts, sep))

\* the type of a member and what follows it: toSafeString of the type when
\* the AST has a name, '| null' when the member is nullable
MemberType(H, m, type) ==
    (IF hasStandaloneName(H[m.ast]) THEN <<toSafeString(type[1])>> ELSE type)
        \o (IF m.isNullable THEN Tok("|") \o Tok("null") ELSE <<>>)

\* MemberLine with '?' on every member
MemberLine_alwaysOptional(H, m, type) ==
    <<escapeKeyName(m.keyName)>> \o Tok("?") \o Tok(":") \o MemberType(H, m, type)

\* key, '?' unless required, ':', type
MemberLine(H, m, type) ==
    <<escapeKeyName(m.keyName)>> \o (IF m.isRequired THEN <<>> ELSE Tok("?")) \o Tok(":")
        \o MemberType(H, m, type)

\* the lines of the members of an interface, given their types
MemberLines(H, a, types, sep) ==
    IF types.e # NoThrow THEN Thrown(types.e)
    ELSE Text(Join([j \in 1..Len(H[a].members) |->
                       MemberLine(H, H[a].members[j], types.texts[j])], sep))

generateInterfaceMembers(T, H, a) ==
    MemberLines(H, a, Mapped([j \in 1..Len(H[a].members) |-> generateType(T, H, H[a].members[j].ast)]),
                NL)

generateInterfaceInitialiserParams(T, H, a) ==
    MemberLines(H, a, Mapped([j \in 1..Len(H[a].members) |-> generateType(T, H, H[a].members[j].ast)]),
                Tok(",\n"))

\* `input.${ key }`
InputOf(m) == <<<<"input.">> \o escapeKeyName(m.keyName)>>

\* Assignment through a factory: key: make(input.key)
Assignment_throughFactory(m) ==
    <<escapeKeyName(m.keyName)>> \o Tok(":") \o Tok("make") \o Tok("(") \o InputOf(m) \o Tok(")")

\* key: input.key, or key: input.key === undefined ? default : input.key
Assignment(m) ==
    <<escapeKeyName(m.keyName)>> \o Tok(":")
        \o (IF m.isRequired THEN InputOf(m)
            ELSE InputOf(m) \o Tok("===") \o Tok("undefined") \o Tok("?")
                    \o DefaultText(m.default) \o Tok(":") \o InputOf(m))

generateInterfaceInitialiserAssignments(H, a) ==
    Join([j \in 1..Len(H[a].members) |-> Assignment(H[a].members[j])], Tok(",\n"))

wrapInterface(rendered) == Tok("{") \o NL \o rendered \o NL \o Tok("}")

wrapInterfaceInitialiserParams(rendered, omitBraces) ==
    Tok("(") \o NL \o Tok("input:") \o (IF omitBraces THEN <<>> ELSE Tok("{")) \o NL
        \o rendered \o NL \o (IF omitBraces THEN <<>> ELSE Tok("}")) \o Tok(")")

wrapInterfaceInitialiserAssignments(rendered, omitBraces) ==
    Tok("(") \o (IF omitBraces THEN <<>> ELSE Tok("{")) \o NL \o rendered \o NL
        \o (IF omitBraces THEN <<>> ELSE Tok("}")) \o Tok(")")

expectAstType(ast, type) == IF ast.type # type THEN "Expected" ELSE NoThrow

\* ast.params.filter(m => !m.standaloneName), filter(m => !!m.standaloneName)
UnnamedParams(H, a) ==
    LET Unnamed(x) == ~hasStandaloneName(H[x]) IN SelectSeq(H[a].params, Unnamed)
NamedParams(H, a) ==
    LET Named(x) == hasStandaloneName(H[x]) IN SelectSeq(H[a].params, Named)

\* members and refs put together, by which of them is not the empty string
Intersected(members, refs, both) ==
    IF members.e # NoThrow THEN members
    ELSE IF Len(members.text) > 0 /\ Len(refs) > 0 THEN Text(both)
    ELSE IF Len(members.text) > 0 THEN Text(wrapInterface(members.text))
    ELSE IF Len(refs) > 0 THEN Text(refs)
    ELSE Thrown("NoMembers")

generateIntersectionRefMembers(H, a) ==
    Join([j \in 1..Len(NamedParams(H, a)) |->
             <<toSafeString(H[NamedParams(H, a)[j]].standaloneName)>>], Tok("&"))

generateIntersectionInterfaceMembers(T, H, a) ==
    JoinMapped([j \in 1..Len(UnnamedParams(H, a)) |->
                   IF expectAstType(H[UnnamedParams(H, a)[j]], "INTERFACE") # NoThrow
                   THEN Thrown(expectAstType(H[UnnamedParams(H, a)[j]], "INTERFACE"))
                   ELSE generateInterfaceMembers(T, H, UnnamedParams(H, a)[j])], Tok(",\n"))

\* `${ wrapInterface(members) }\n& ${ refs }`
TypeOfBoth(members, refs) == wrapInterface(members.text) \o NL \o Tok("&") \o refs

generateIntersectionMembers(T, H, a) ==
    LET Put(members, refs) == Intersected(members, refs, TypeOfBoth(members, refs))
    IN  Put(generateIntersectionInterfaceMembers(T, H, a), generateIntersectionRefMembers(H, a))

generateIntersectionInterfaceInitialiserParams(T, H, a) ==
    JoinMapped([j \in 1..Len(UnnamedParams(H, a)) |->
                   IF expectAstType(H[UnnamedParams(H, a)[j]], "INTERFACE") # NoThrow
                   THEN Thrown(expectAstType(H[UnnamedParams(H, a)[j]], "INTERFACE"))
                   ELSE generateInterfaceInitialiserParams(T, H, UnnamedParams(H, a)[j])], Tok(",\n"))

generateIntersectionInitialiserParams(T, H, a) ==
    LET Put(members, refs) == Intersected(members, refs, TypeOfBoth(members, refs))
    IN  Put(generateIntersectionInterfaceInitialiserParams(T, H, a),
            generateIntersectionRefMembers(H, a))

\* `make${ name }(input)` of every named member
generateIntersectionRefInitialiserAssignments(H, a) ==
    Join([j \in 1..Len(NamedParams(H, a)) |->
             <<<<"make">> \o toSafeString(H[NamedParams(H, a)[j]].standaloneName)>>
                 \o Tok("(input)")], Tok(","))

generateIntersectionInterfaceInitialiserAssignments(H, a) ==
    JoinMapped([j \in 1..Len(UnnamedParams(H, a)) |->
                   IF expectAstType(H[UnnamedParams(H, a)[j]], "INTERFACE") # NoThrow
                   THEN Thrown(expectAstType(H[UnnamedParams(H, a)[j]], "INTERFACE"))
                   ELSE Text(generateInterfaceInitialiserAssignments(H, UnnamedParams(H, a)[j]))],
               Tok(",\n"))

\* the object literal alone, without the factories of the named members
AssignBoth_noRefs(members, refs) == wrapInterface(members.text)

\* `Object.assign(${ wrapInterface(members) }\n,${ refs })`
AssignBoth(members, refs) ==
    Tok("Object.assign(") \o wrapInterface(members.text) \o NL \o Tok(",") \o refs \o Tok(")")

generateIntersectionInitialiserAssignments(H, a) ==
    LET Put(members, refs) == Intersected(members, refs, AssignBoth(members, refs))
    IN  Put(generateIntersectionInterfaceInitialiserAssignments(H, a),
            generateIntersectionRefInitialiserAssignments(H, a))

\* 'null' for a null member, the name of a named one; sorted, joined by '|'
\* the sorted members, joined by '|'
SortedUnion(members, engine) ==
    IF members.e # NoThrow THEN Thrown(members.e)
    ELSE Text(Join([j \in 1..Len(members.texts) |->
                       <<Sorted([k \in 1..Len(members.texts) |-> members.texts[k][1]], engine)[j]>>],
                   Tok("|")))

\* generateUnionMembers without the test for a name: a member without one
\* is rendered as 'unknown'
generateUnionMembers_anyMember(H, a, engine) ==
    SortedUnion(Mapped([j \in 1..Len(H[a].params) |->
                    IF H[H[a].params[j]].type = "NULL" THEN Text(Tok("null"))
                    ELSE IF ~hasStandaloneName(H[H[a].params[j]]) THEN Text(Tok("unknown"))
                    ELSE Text(<<toSafeString(H[H[a].params[j]].standaloneName)>>)]), engine)

generateUnionMembers(H, a, engine) ==
    SortedUnion(Mapped([j \in 1..Len(H[a].params) |->
                    IF H[H[a].params[j]].type = "NULL" THEN Text(Tok("null"))
                    ELSE IF ~hasStandaloneName(H[H[a].params[j]]) THEN Thrown("OnlyNamed")
                    ELSE Text(<<toSafeString(H[H[a].params[j]].standaloneName)>>)]), engine)

generateEnumMembers(H, a) ==
    JoinMapped([j \in 1..Len(H[a].params) |->
                   IF expectAstType(H[H[a].params[j]], "LITERAL") # NoThrow
                   THEN Thrown(expectAstType(H[H[a].params[j]], "LITERAL"))
                   ELSE IF H[H[a].params[j]].lit.t \notin {"string", "number", "boolean"}
                   THEN Thrown("EnumItems")
                   ELSE Text(LiteralText(H[H[a].params[j]].lit))], Tok("|"))

\* '[' + params.join(', ') + ']'
paramsToString(params) == Tok("[") \o Join(params, Tok(",")) \o Tok("]")

\* for (let i = minItems; i < paramsList.length; i += 1): one more element
\* on the cumulative list, one more tuple type
RECURSIVE TuplesFrom(_, _, _, _)
TuplesFrom(paramsList, i, cumulativeParamsList, typesToUnion) ==
    IF i >= Len(paramsList) THEN typesToUnion
    ELSE TuplesFrom(paramsList, i + 1, Append(cumulativeParamsList, paramsList[i + 1]),
                    Append(typesToUnion, paramsToString(Append(cumulativeParamsList, paramsList[i + 1]))))

\* TupleUnion as the one tuple of all elements
TupleUnion_fullTupleOnly(paramsList, minItems) == paramsToString(paramsList)

\* the tuple of the first minItems elements, then the loop; joined by '|'
TupleUnion(paramsList, minItems) ==
    LET cumulativeParamsList == SubSeq(paramsList, 1, minItems)
    IN  Join(TuplesFrom(paramsList, minItems, cumulativeParamsList,
                        <<paramsToString(cumulativeParamsList)>>), Tok("|"))

\* type.endsWith('"')
EndsWithQuote(type) ==
    /\ Len(type) > 0
    /\ Len(type[Len(type)]) > 0
    /\ type[Len(type)][Len(type[Len(type)])] = "\""

\* type.endsWith('"') ? '(' + type + ')[]' : type + '[]'
ArrayOf(type) ==
    IF type.e # NoThrow THEN type
    ELSE IF EndsWithQuote(type.text) THEN Text(Tok("(") \o type.text \o Tok(")") \o Tok("[]"))
    ELSE Text(type.text \o Tok("[]"))

TupleOf(params, minItems) ==
    IF params.e # NoThrow THEN Thrown(params.e)
    ELSE IF minItems >= Len(params.texts) THEN Thrown("MinTuple")
    ELSE Text(TupleUnion(params.texts, minItems))

\* the switch of generateRawType, the types of the children taken from T
RawBody(T, H, a, engine) ==
    CASE H[a].type = "ARRAY" -> ArrayOf(generateType(T, H, H[a].params[1]))
      [] H[a].type = "BOOLEAN" -> Text(Tok("boolean"))
      [] H[a].type = "LITERAL" -> Text(LiteralText(H[a].lit))
      [] H[a].type = "NUMBER" -> Text(Tok("number"))
      [] H[a].type = "NULL" -> Text(Tok("null"))
      [] H[a].type = "STRING" -> Text(Tok("string"))
      [] H[a].type = "INTERFACE" -> generateInterfaceMembers(T, H, a)
      [] H[a].type = "INTERSECTION" -> generateIntersectionMembers(T, H, a)
      [] H[a].type = "TUPLE" ->
            TupleOf(Mapped([j \in 1..Len(H[a].params) |-> generateType(T, H, H[a].params[j])]),
                    H[a].minItems)
      [] H[a].type = "UNION" -> generateUnionMembers(H, a, engine)
      [] H[a].type = "ENUM" -> generateEnumMembers(H, a)
      [] OTHER -> Thrown("UnknownAstType")

\* the recursion of generateRawType through unnamed ASTs, to depth k: an
\* unnamed AST that contains itself is rendered inside its own rendering
\* without end, and the call stack overflows (RangeError)
RECURSIVE RenderedTo(_, _, _)
RenderedTo(H, engine, k) ==
    IF k = 0 THEN [a \in DOMAIN H |-> Thrown("RangeError")]
    ELSE LET T == RenderedTo(H, engine, k - 1)
         IN  [a \in DOMAIN H |-> RawBody(T, H, a, engine)]

\* no chain of unnamed ASTs without a repetition is longer than the heap
Rendered(H, engine) == RenderedTo(H, engine, Len(H))

\* export interface Name {members}, export const makeName = (input: {params}):
\* Name => ({assignments});
InterfaceText(name, members, params, assignments) ==
    IF members.e # NoThrow THEN members
    ELSE IF params.e # NoThrow THEN params
    ELSE Text(Tok("export") \o Tok("interface") \o <<name>> \o wrapInterface(members.text)
              \o NL \o NL \o Tok("export") \o Tok("const") \o <<<<"make">> \o name>> \o Tok("=")
              \o wrapInterfaceInitialiserParams(params.text, FALSE)
              \o Tok(":") \o <<name>> \o Tok("=>")
              \o wrapInterfaceInitialiserAssignments(assignments, FALSE)
              \o Tok(";"))

generateStandaloneInterface(T, H, a) ==
    InterfaceText(toSafeString(H[a].standaloneName), generateInterfaceMembers(T, H, a),
                  generateInterfaceInitialiserParams(T, H, a),
                  generateInterfaceInitialiserAssignments(H, a))

\* export type Name = members, export const makeName = (input: params): Name
\* => (assignments);
IntersectionText(name, members, params, assignments) ==
    IF members.e # NoThrow THEN members
    ELSE IF params.e # NoThrow THEN params
    ELSE IF assignments.e # NoThrow THEN assignments
    ELSE Text(Tok("export") \o Tok("type") \o <<name>> \o Tok("=") \o members.text
              \o NL \o NL \o Tok("export") \o Tok("const") \o <<<<"make">> \o name>> \o Tok("=")
              \o wrapInterfaceInitialiserParams(params.text, TRUE)
              \o Tok(":") \o <<name>> \o Tok("=>")
              \o wrapInterfaceInitialiserAssignments(assignments.text, TRUE)
              \o Tok(";"))

generateStandaloneIntersection(T, H, a) ==
    IntersectionText(toSafeString(H[a].standaloneName), generateIntersectionMembers(T, H, a),
                     generateIntersectionInitialiserParams(T, H, a),
                     generateIntersectionInitialiserAssignments(H, a))

\* export type Name = type; (the union with two line breaks after it)
TypeText(name, type, end) ==
    IF type.e # NoThrow THEN type
    ELSE Text(Tok("export") \o Tok("type") \o <<name>> \o Tok("=") \o type.text \o Tok(";") \o end)

generateStandaloneUnion(H, a, engine) ==
    TypeText(toSafeString(H[a].standaloneName), generateUnionMembers(H, a, engine), NL \o NL)

\* renders a copy of the AST that has no standaloneName: the switch of
\* generateRawType
generateStandaloneType(T, H, a) ==
    TypeText(toSafeString(H[a].standaloneName), T[a], <<>>)

\* one declaration of the output text
Declared(form, H, a, text) ==
    [form |-> form, ast |-> a, name |-> H[a].standaloneName, text |-> text]
Emit(out, P, e) == [out |-> out, processed |-> P, e |-> e]

\* the declaration that a generateStandalone function returned, or its throw
Declare(form, H, a, P, r) ==
    IF r.e # NoThrow THEN Emit(<<>>, P, r.e) ELSE Emit(<<Declared(form, H, a, r.text)>>, P, NoThrow)

\* the texts of two calls made in order, the second with the processed set
\* the first left
Then(first, second) ==
    IF first.e # NoThrow THEN Emit(<<>>, first.processed, first.e)
    ELSE Emit(first.out \o second.out, second.processed, second.e)

RECURSIVE declareNamedTypes(_, _, _, _, _, _, _)

\* ast.params.map(param => declareNamedTypes(param, options, rootASTName, processed))
RECURSIVE DeclareEach(_, _, _, _, _, _, _)
DeclareEach(T, H, params, root, P, active, engine) ==
    IF params = <<>> THEN Emit(<<>>, P, NoThrow)
    ELSE LET Rest(r) == Then(r, DeclareEach(T, H, Tail(params), root, r.processed, active, engine))
         IN  Rest(declareNamedTypes(T, H, Head(params), root, P, active, engine))

\* every member with an internal name is declared by a call of
\* declareNamedTypes that gets no processed set and so starts an empty one
RECURSIVE generateUnionChildren(_, _, _, _, _, _)
generateUnionChildren(T, H, params, root, active, engine) ==
    IF params = <<>> THEN Emit(<<>>, {}, NoThrow)
    ELSE Then(IF hasInternalStandaloneName(H[Head(params)])
              THEN declareNamedTypes(T, H, Head(params), root, {}, active, engine)
              ELSE Emit(<<>>, {}, NoThrow),
              generateUnionChildren(T, H, Tail(params), root, active, engine))

\* declareNamedTypes: the declarations in the order of the text, the
\* processed set afterwards, what was thrown; T is what the switch of
\* generateRawType gives for every AST; active holds the unions whose
\* generateUnionChildren is in progress (one that reaches itself through
\* fresh processed sets overflows the call stack)
declareNamedTypes(T, H, a, root, P, active, engine) ==
    LET Q == P \cup {a}
        named == hasStandaloneName(H[a])
        None2(S) == Emit(<<>>, S, NoThrow)
    IN  IF a \in P THEN None2(P)
        ELSE CASE H[a].type = "ARRAY" ->
                    LET Own(r) == Then(r, IF named
                                          THEN Declare("type", H, a, r.processed,
                                                       generateStandaloneType(T, H, a))
                                          ELSE None2(r.processed))
                    IN  Own(declareNamedTypes(T, H, H[a].params[1], root, Q, active, engine))
               [] H[a].type = "INTERFACE" ->
                    IF named /\ H[a].standaloneName # root
                    THEN Declare("interface", H, a, Q, generateStandaloneInterface(T, H, a))
                    ELSE None2(Q)
               [] H[a].type = "INTERSECTION" ->
                    IF named THEN Declare("type", H, a, Q, generateStandaloneIntersection(T, H, a))
                    ELSE None2(Q)
               [] H[a].type = "UNION" ->
                    IF ~named THEN None2(Q)
                    ELSE IF a \in active THEN Emit(<<>>, Q, "RangeError")
                    ELSE Then(generateUnionChildren(T, H, H[a].params, root, active \cup {a}, engine),
                              Declare("type", H, a, Q, generateStandaloneUnion(H, a, engine)))
               [] H[a].type = "TUPLE" ->
                    Then(IF named THEN Declare("type", H, a, Q, generateStandaloneType(T, H, a))
                         ELSE None2(Q),
                         DeclareEach(T, H, H[a].params, root, Q, active, engine))
               [] OTHER ->
                    IF named THEN Declare("type", H, a, Q, generateStandaloneType(T, H, a))
                    ELSE None2(Q)

RECURSIVE declareNamedInterfaces(_, _, _, _, _)
declareNamedInterfaces(T, H, a, root, P) ==
    IF a \in P THEN Emit(<<>>, P, NoThrow)
    ELSE CASE H[a].type = "ARRAY" -> declareNamedInterfaces(T, H, H[a].params[1], root, P \cup {a})
           [] H[a].type = "INTERFACE" ->
                IF hasStandaloneName(H[a]) /\ H[a].standaloneName = root
                THEN Declare("interface", H, a, P \cup {a}, generateStandaloneInterface(T, H, a))
                ELSE Emit(<<>>, P \cup {a}, NoThrow)
           [] OTHER -> Emit(<<>>, P \cup {a}, NoThrow)

\* the type declarations, then the interface declarations
Generated(types, interfaces) ==
    IF types.e # NoThrow THEN Emit(<<>>, {}, types.e)
    ELSE IF interfaces.e # NoThrow THEN Emit(<<>>, {}, interfaces.e)
    ELSE Emit(types.out \o interfaces.out, {}, NoThrow)

\* generate(ast), on one of the engines
generate(H, a, engine) ==
    Generated(declareNamedTypes(Rendered(H, engine), H, a, H[a].standaloneName, {}, {}, engine),
              declareNamedInterfaces(Rendered(H, engine), H, a, H[a].standaloneName, {}))

\* what compile has when generate has returned or thrown
Compiled(g) ==
    /\ gpc' = IF g.e = NoThrow THEN "done" ELSE "failed"
    /\ gerr' = g.e
    /\ emitted' = g.out

\* the ASTs that generate can come to from the root
RECURSIVE AstsFrom(_, _, _)
AstsFrom(H, frontier, seen) ==
    LET next == UNION {Range(H[a].params) : a \in frontier} \ seen
    IN  IF next = {} THEN seen ELSE AstsFrom(H, next, seen \cup next)

\* the array that sort is called on, taken to be ast.params
SortReceiver_params(a) == <<"ast.params", a>>

\* const members = ast.params.map(...); members.sort(...): sort, which
\* rearranges the array it is called on, is called on the array that map
\* has returned, a new one
SortReceiver(a) == <<"new">>

\* omit(ast, 'standaloneName'): lodash builds a new object of the properties
\* that are not omitted; generateType is handed that object
Omitted(a) == <<"new">>

\* [...ast.params], paramsList.slice(0, minItems): push is called on a copy
\* that holds texts
PushReceiver(a) == <<"new">>

\* what generate leaves of AST a: a write to a new object leaves it as it is
AstAfter(H, a) ==
    LET nullsLast(params) ==
            SelectSeq(params, LAMBDA c : H[c].type # "NULL") \o SelectSeq(params, LAMBDA c : H[c].type = "NULL")
        sorted == IF H[a].type = "UNION" /\ SortReceiver(a) = <<"ast.params", a>>
                  THEN [H[a] EXCEPT !.params = nullsLast(@)] ELSE H[a]
        pushed == IF H[a].type = "TUPLE" /\ PushReceiver(a) = <<"ast.params", a>>
                  THEN [sorted EXCEPT !.params = @ \o @] ELSE sorted
    IN  IF hasStandaloneName(H[a]) /\ H[a].type \notin {"INTERFACE", "INTERSECTION", "UNION"}
           /\ Omitted(a) = <<"ast", a>>
        THEN [pushed EXCEPT !.standaloneName = <<>>] ELSE pushed

\* the ASTs when generate has returned or thrown
HeapAfter(H, root) ==
    [a \in DOMAIN H |-> IF a \in AstsFrom(H, {root}, {root}) THEN AstAfter(H, a) ELSE H[a]]

\* compile, after parse has returned: generate(parse(schema))
Generate ==
    /\ pc = "done"
    /\ gpc = "idle"
    /\ \E engine \in Engines : Compiled(generate(heap, result, engine))
    /\ heap' = HeapAfter(heap, result)
    /\ UNCHANGED <<schema, input, processed, litCache, stack, pc, err, result, runs, returned>>
    /\ UNCHANGED <<cvars, vvars, kvars>>

Next == Start \/ VisitCached \/ VisitNew \/ Return \/ Generate

(***************************************************************************)
(* Spec: parse applied to a schema graph                                   *)
(***************************************************************************)
Nodes == 1..NumNodes

Titles == <<"Root", "Person", "Name", "Pet", "Owner">>
Keys == <<"a", "b">>
TitleOf(i, named) == IF named THEN <<Titles[i]>> ELSE <<>>

TString == TypeStr(<<"string">>)
Red == Val("string", 1)
Green == Val("string", 2)

Props(kids) == Some([j \in 1..Len(kids) |-> [key |-> Keys[j], node |-> kids[j]]])
AllKeys(kids) == Some([j \in 1..Len(kids) |-> Keys[j]])

\* the node of one kind with the given children
Shape(kind, title, kids) ==
    CASE kind = "string" -> Leaf(title, TString)
      [] kind = "null" -> Leaf(title, TypeStr(StrNull))
      [] kind = "enum" ->
            Node(title, <<>>, None, None, None, None, None, Some(<<Red, Green>>), TypeAbsent,
                 None, None, Undefined, FALSE, 0, 0)
      [] kind = "object" ->
            Node(title, <<>>, None, None, None, None, None, None, TypeStr(<<"object">>),
                 Props(kids), AllKeys(kids), Undefined, FALSE, 0, 0)
      [] kind = "branch" ->
            Node(title, <<>>, None, None, None, None, None, None, TypeAbsent,
                 Props(kids), None, Undefined, FALSE, 0, 0)
      [] kind = "array" ->
            Node(title, <<>>, None, None, None, None, Some([isArray |-> FALSE, kids |-> <<kids[1]>>]),
                 None, TypeStr(<<"array">>), None, None, Undefined, FALSE, 0, 0)
      [] kind = "tuple" ->
            Node(title, <<>>, None, None, None, None, Some([isArray |-> TRUE, kids |-> kids]),
                 None, TypeStr(<<"array">>), None, None, Undefined, FALSE, Len(kids) - 1, Len(kids))
      [] kind = "allOf" ->
            Node(title, <<>>, Some(kids), None, None, None, None, None, TypeAbsent,
                 None, None, Undefined, FALSE, 0, 0)
      [] kind = "anyOf" ->
            Node(title, <<>>, None, Some(kids), None, None, None, None, TypeAbsent,
                 None, None, Undefined, FALSE, 0, 0)
      [] kind = "oneOf" ->
            Node(title, <<>>, None, None, Some(kids), None, None, None, TypeAbsent,
                 None, None, Undefined, FALSE, 0, 0)

LeafKinds == {"string", "null", "enum"}
CompositeKinds == {"object", "branch", "array", "tuple", "allOf", "anyOf", "oneOf"}
InnerKinds == {"object", "branch", "array", "allOf"}

\* the child lists of node i: the next node once or twice, the root (a
\* cycle), the node itself (a cycle of length 1), the next and the last
\* node (two paths to the last node)
RootKids == {<<2>>, <<2, 2>>, <<2, 1>>, <<1>>, <<2, NumNodes>>}
InnerKids(i) == {<<i + 1>>, <<i + 1, i + 1>>, <<1>>}

\* the graphs that vary the topology: no node has a default
TopologyNodes(i) ==
    IF i = RootNode
    THEN {Shape(k, TitleOf(i, named), kids) : k \in CompositeKinds, named \in BOOLEAN, kids \in RootKids}
    ELSE IF i < NumNodes
    THEN {Shape(k, TitleOf(i, k \in {"object", "allOf"}), kids) : k \in InnerKinds, kids \in InnerKids(i)}
         \cup {Shape(k, TitleOf(i, named), <<>>) : k \in {"string"}, named \in BOOLEAN}
    ELSE {Shape(k, TitleOf(i, named), <<>>) : k \in LeafKinds, named \in BOOLEAN}

RECURSIVE GraphsUpTo(_)
GraphsUpTo(n) ==
    IF n = 0 THEN {<<>>}
    ELSE {Append(g, x) : g \in GraphsUpTo(n - 1), x \in TopologyNodes(n)}

TopologyGraphs == GraphsUpTo(NumNodes)

\* the graphs that vary one property: the root is an object whose only
\* property a is node 2, of any shape, default and nullability
Defaults == {Undefined, JNull, Val("boolean", 1), Val("number", 16), Red,
             Val("array", 0), Val("array", 1), Val("object", 0)}

PropertyTypes == {TString, TypeStr(<<"number">>), TypeStr(<<"boolean">>), TypeStr(StrNull),
                  TypeStr(<<"object">>), TypeStr(<<"any">>), TypeStr(<<"string", ",", " ", "null">>),
                  TypeArr(<<<<"number">>, StrNull>>), TypeArr(<<StrNull>>)}

PropertyShapes ==
    {Leaf(<<>>, t) : t \in PropertyTypes}
    \cup {Shape(k, <<>>, <<3>>) : k \in {"array", "allOf", "anyOf", "object"}}
    \cup {Shape("tuple", <<>>, <<3, 3>>), Shape("enum", <<>>, <<>>)}

RootObjects ==
    {[Shape("object", n[1], <<2>>) EXCEPT !.id = n[2], !.required = r] :
        n \in {<<<<>>, <<>>>>, <<<<"Root">>, <<>>>>, <<<<>>, <<"root", ".json">>>>},
        r \in {None, Some(<<>>), Some(<<"a">>)}}

PropertyNodes ==
    {[p EXCEPT !.title = TitleOf(2, named), !.default = d, !.nullable = nullable] :
        p \in PropertyShapes, named \in BOOLEAN, d \in Defaults, nullable \in BOOLEAN}

PropertyGraphs ==
    {[i \in Nodes |-> IF i = 1 THEN r ELSE IF i = 2 THEN p ELSE Leaf(<<>>, TString)] :
        r \in RootObjects, p \in PropertyNodes}

\* the graphs that vary one branch: the root is {title: 'Root', anyOf: [...]}
\* or the same with oneOf, its one branch is node 2, an object with property
\* a or properties a and b, with or without a title and a required list; the
\* properties are node 3, {type: 'string', default: 'red'}
BranchNodes ==
    {[Shape("branch", TitleOf(2, named), kids) EXCEPT !.required = r] :
        named \in BOOLEAN, kids \in {<<3>>, <<3, 3>>},
        r \in {None, Some(<<>>), Some(<<"a">>), Some(<<"b">>)}}

BranchGraphs ==
    {[i \in Nodes |-> IF i = 1 THEN Shape(k, <<"Root">>, <<2>>)
                      ELSE IF i = 2 THEN b
                      ELSE [Leaf(<<>>, TString) EXCEPT !.default = Red]] :
        k \in {"anyOf", "oneOf"}, b \in BranchNodes}

\* the graphs that vary two enumerations: the root is {title: 'Root', type:
\* 'object', properties: {a: {enum: [...]}, b: {enum: [...]}}, required:
\* ['a', 'b']}
EnumLists == {<<Red>>, <<Red, Green>>, <<Green, Red>>, <<Val("number", 16)>>}
EnumGraphs ==
    {[i \in Nodes |-> IF i = 1 THEN Shape("object", <<"Root">>, <<2, 3>>)
                      ELSE IF i = 2 THEN [Shape("enum", <<>>, <<>>) EXCEPT !.enum = Some(e[1])]
                      ELSE IF i = 3 THEN [Shape("enum", <<>>, <<>>) EXCEPT !.enum = Some(e[2])]
                      ELSE Leaf(<<>>, TString)] :
        e \in EnumLists \X EnumLists}

\* the graphs that vary a cycle below the root: the root is an array or a
\* tuple of node 2, node 2 an array or a tuple without a title whose items
\* are node 2 itself, node 3 or the root, and node 3 an array of node 2
CycleGraphs ==
    {[i \in Nodes |-> IF i = 1 THEN Shape(k[1], TitleOf(1, named), <<2>>)
                      ELSE IF i = 2 THEN Shape(k[2], <<>>, kids)
                      ELSE IF i = 3 THEN Shape("array", <<>>, <<2>>)
                      ELSE Leaf(<<>>, TString)] :
        k \in {"array", "tuple"} \X {"array", "tuple"}, named \in BOOLEAN,
        kids \in {<<2>>, <<3>>, <<1>>}}

\* the graphs that vary an optional member with default null: the root is
\* {title: 'Root', type: 'object', properties: {a: ...}, required: [],
\* default: null} and a is the root itself or node 2, {title: 'Person',
\* type: 'object', properties: ..., required: [], default: null} with no
\* property or with the property a, node 3, {type: 'string', default: 'red'}
NullDefaultGraphs ==
    {[i \in Nodes |->
         IF i = 1 THEN [Shape("object", <<"Root">>, <<k>>) EXCEPT !.required = Some(<<>>), !.default = JNull]
         ELSE IF i = 2 THEN [Shape("object", <<"Person">>, kids) EXCEPT !.required = Some(<<>>), !.default = JNull]
         ELSE [Leaf(<<>>, TString) EXCEPT !.default = Red]] :
        k \in {1, 2}, kids \in {<<>>, <<3>>}}

Init ==
    /\ schema \in TopologyGraphs \cup PropertyGraphs \cup BranchGraphs \cup EnumGraphs \cup CycleGraphs
                  \cup NullDefaultGraphs
    /\ input = schema
    /\ processed = [n \in Nodes |-> 0]
    /\ litCache = {}
    /\ heap = <<>>
    /\ stack = <<>>
    /\ pc = "start"
    /\ err = NoErr
    /\ result = 0
    /\ runs = [n \in Nodes |-> 0]
    /\ returned = {}
    /\ GenerateIdle
    /\ ClassifyIdle
    /\ ValidateIdle
    /\ CompileIdle

Spec == Init /\ [][Next]_vars

(***************************************************************************)
(* Claims about parse (Spec)                                               *)
(***************************************************************************)
Finished == pc \in {"done", "failed"}
AstIds == 1..Len(heap)

\* C5: every call of parse for one schema node returns the one AST object
\* the cache holds for it; the entry of a node is in the cache while its
\* children are parsed; the body of parse runs at most once per node.
C5_OneAstPerNode ==
    /\ \A r \in returned : r.node # 0 => r.ast = processed[r.node]
    /\ \A r1, r2 \in returned : (r1.node # 0 /\ r1.node = r2.node) => r1.ast = r2.ast
    /\ \A j \in 1..Len(stack) : processed[stack[j].node] = stack[j].ast /\ stack[j].ast # 0
    /\ \A n \in DOMAIN runs : runs[n] <= 1 /\ (runs[n] = 1 => processed[n] # 0)

\* C5 witness: parse has returned an AST in which a node is its own child (a
\* cycle) and one in which one child is there twice (a shared node)
C5_Witness ==
    /\ pc = "done"
    /\ \/ \E a \in AstIds : a \in Range(heap[a].params)
       \/ \E a \in AstIds : Len(heap[a].params) = 2 /\ heap[a].params[1] = heap[a].params[2]
                            /\ heap[heap[a].params[1]].type = "INTERFACE"

\* the examples of C6: a named object whose required member is the object
\* itself; an object whose required member is an array of that object
SelfContaining ==
    \/ input[RootNode] = Shape("object", <<"Root">>, <<1>>)
    \/ /\ input[RootNode] = Shape("object", <<"Root">>, <<2>>)
       /\ input[2] = Shape("array", <<>>, <<1>>)

\* C6 as stated: parse of a graph in which an object contains itself ends by
\* returning an AST in which the member is the AST of the object itself.
C6_AsClaimed ==
    (SelfContaining /\ Finished) =>
        /\ pc = "done"
        /\ \E a \in Range(heap[result].params) :
               a = result \/ result \in Range(heap[a].params)

\* the objects that parse has made an interface of
IsInterface(n) == processed[n] # 0 /\ heap[processed[n]].type = "INTERFACE"
PropsOf(s) == IF Has(s.properties) THEN Range(s.properties[1]) ELSE {}
RequiredOf(s) == IF Has(s.required) THEN Range(s.required[1]) ELSE {}

OneProperty ==
    /\ typeOfSchema(input[RootNode]) = Ok("NAMED_SCHEMA")
    /\ input[RootNode].properties = Props(<<2>>)
PropertyParsed ==
    /\ OneProperty
    /\ Finished
    /\ processed[2] # 0
    /\ heap[processed[2]].type # "EMPTY"
PropertyAst == heap[processed[2]]
PropertyNullable == input[2].nullable \/ isTypeNullable(input[2]) = Ok(TRUE)
Rejected(kind) == pc = "failed" /\ err.kind = kind

\* C9 as stated: a null default is accepted when the property is nullable or
\* its AST has a standalone name, whatever the AST kind, and is refused with a
\* default-value error when neither holds.
C9_AsClaimed ==
    (PropertyParsed /\ input[2].default = JNull) =>
        IF PropertyNullable \/ PropertyAst.standaloneName # <<>>
        THEN pc = "done"
        ELSE Rejected("NullDefault")

KindsThatTakeNull == {"INTERFACE", "INTERSECTION", "UNION", "NULL"}

\* C9 amended: a null default is accepted when the property is nullable; when
\* it is not nullable it is refused with the null-default error if the AST
\* has no standalone name, and with a name it is accepted only for an
\* interface, intersection, union or null AST: a named enumeration fails with
\* 'Unknown AST type' and every other named kind with 'not a valid default'.
C9_NullDefault ==
    (PropertyParsed /\ input[2].default = JNull) =>
        IF PropertyNullable THEN pc = "done"
        ELSE IF PropertyAst.standaloneName = <<>> THEN Rejected("NullDefault")
        ELSE IF PropertyAst.type \in KindsThatTakeNull THEN pc = "done"
        ELSE IF PropertyAst.type = "ENUM" THEN Rejected("UnknownAstType")
        ELSE Rejected("NotValidDefault")

\* C9 witness: a named string property with default null, not nullable, is
\* refused as 'not a valid default'
C9_Witness ==
    /\ PropertyParsed /\ input[2].default = JNull /\ ~PropertyNullable
    /\ PropertyAst.type = "STRING" /\ PropertyAst.standaloneName # <<>>
    /\ Rejected("NotValidDefault")

\* the kind of a default matches the kind of an AST
KindMatches(d, ast) ==
    CASE ast.type = "BOOLEAN" -> d.t = "boolean"
      [] ast.type = "NUMBER" -> d.t = "number"
      [] ast.type = "STRING" -> d.t = "string"
      [] ast.type \in {"ARRAY", "TUPLE"} -> d.t = "array"
      [] ast.type = "ENUM" -> \E a \in Range(ast.params) : heap[a].lit = d
      [] OTHER -> FALSE

\* C10 as stated: a non-null default of a property that is not nullable is
\* refused as 'not a valid default' unless its kind matches the AST, a
\* boolean, number or string default that matches is accepted, and a
\* nullable property takes any default.
C10_AsClaimed ==
    (PropertyParsed /\ input[2].default \notin {Undefined, JNull}) =>
        IF PropertyNullable THEN pc = "done"
        ELSE /\ ~KindMatches(input[2].default, PropertyAst) => Rejected("NotValidDefault")
             /\ (KindMatches(input[2].default, PropertyAst)
                    /\ PropertyAst.type \in {"BOOLEAN", "NUMBER", "STRING"}) => pc = "done"

\* C10 holds of every AST kind but the enumeration
C10_ExceptEnum ==
    (PropertyParsed /\ PropertyAst.type # "ENUM") => C10_AsClaimed

\* the member record that parse has made of the one property
PropertyMember == heap[result].members[1]
PropertyDone == OneProperty /\ pc = "done"

\* the declared type is an array of two entries, null and one other type
NullAndOneOther(t) ==
    /\ t.k = "array"
    /\ Len(t.a) = 2
    /\ Cardinality({j \in 1..2 : t.a[j] = StrNull}) = 1

\* C22 as stated: a property is nullable exactly when its declared type is an
\* array of two entries, null and one other type, whatever its other fields.
C22_AsClaimed ==
    PropertyDone => (PropertyMember.isNullable <=> NullAndOneOther(input[2].type))

\* the entries of a declared type: those of the array, or the parts of the
\* string between its commas
DeclaredTypes(t) ==
    CASE t.k = "array" -> t.a
      [] t.k = "string" /\ t.s # <<>> -> SplitTypes(t.s)
      [] OTHER -> <<>>

\* C22 amended: a property is nullable exactly when its nullable field is set
\* or its declared type, an array or a string of types separated by commas,
\* has two entries, null and one other type; with the nullable field unset a
\* single type, 'null' alone too, is never nullable.
C22_FlagOrTwoTypes ==
    PropertyDone =>
        LET types == DeclaredTypes(input[2].type)
        IN  /\ PropertyMember.isNullable <=>
                   \/ input[2].nullable
                   \/ Len(types) = 2 /\ Cardinality({j \in 1..2 : types[j] = StrNull}) = 1
            /\ (~input[2].nullable /\ Len(types) <= 1) => ~PropertyMember.isNullable

\* C22 witness: the property of type 'string, null' has become a nullable
\* member
C22_Witness ==
    /\ PropertyDone
    /\ input[2].type = TypeStr(<<"string", ",", " ", "null">>)
    /\ ~input[2].nullable
    /\ PropertyMember.isNullable

\* the root is an anyOf or oneOf and parse has come back from its branch c
RootIsAlternativeSet == typeOfSchema(input[RootNode]) \in {Ok("ANY_OF"), Ok("ONE_OF")}
RootBranches ==
    IF Has(input[RootNode].anyOf) THEN Range(input[RootNode].anyOf[1]) ELSE Range(input[RootNode].oneOf[1])
BranchParsed(c) ==
    /\ RootIsAlternativeSet
    /\ c \in RootBranches
    /\ c # RootNode
    /\ processed[c] # 0
    /\ heap[processed[c]].type = "INTERFACE"
HasProperties(s, n) == Has(s.properties) /\ Len(s.properties[1]) = n

\* C23 as stated: a branch of an anyOf or oneOf that is an object with one
\* property and no required list is parsed with that property's key as its
\* required list, and its member is required; a branch that has a required
\* list keeps it, and a branch with more than one property and no required
\* list has none after the parse either.
C23_AsClaimed ==
    \A c \in DOMAIN input : (Finished /\ BranchParsed(c)) =>
        /\ (HasProperties(input[c], 1) /\ ~Has(input[c].required)) =>
               /\ schema[c].required = Some(<<input[c].properties[1][1].key>>)
               /\ \A j \in DOMAIN heap[processed[c]].members : heap[processed[c]].members[j].isRequired
        /\ Has(input[c].required) => schema[c].required = input[c].required
        /\ (Has(input[c].properties) /\ Len(input[c].properties[1]) > 1 /\ ~Has(input[c].required)) =>
               ~Has(schema[c].required)

\* the enumerations among the ASTs, and the entries of one
EnumAsts == {a \in AstIds : heap[a].type = "ENUM"}

\* C25 as stated: no two schema nodes that parse has been called for have
\* the same AST object, and no entry of one enumeration has the AST object
\* of an entry of another enumeration, whether or not the two are equal.
C25_AsClaimed ==
    Finished =>
        /\ \A n1, n2 \in DOMAIN processed :
               (n1 # n2 /\ processed[n1] # 0 /\ processed[n2] # 0) => processed[n1] # processed[n2]
        /\ \A a, b \in EnumAsts :
               a # b => Range(heap[a].params) \cap Range(heap[b].params) = {}

\* C27 as stated: when parse has returned or thrown, every schema node has
\* the required list, the properties, the type and every other field that
\* it had when parse was called.
C27_AsClaimed ==
    Finished => \A n \in DOMAIN input : schema[n] = input[n]

\* the one property is an enumeration, not required, not nullable, and its
\* default is one of the literals
OptionalEnumWithDefault ==
    /\ OneProperty
    /\ typeOfSchema(input[2]) = Ok("ENUM")
    /\ "a" \notin RequiredOf(input[RootNode])
    /\ ~PropertyNullable
    /\ input[2].default \in Range(input[2].enum[1])

\* C29 as stated: parse accepts an optional member that is an enumeration
\* with one of its literals as default, and the member record holds that
\* default.
C29_AsClaimed ==
    (OptionalEnumWithDefault /\ Finished) =>
        /\ pc = "done"
        /\ ~PropertyMember.isRequired
        /\ PropertyMember.default = RenderedDefault(input[2].default)

\* the one member of the root object is optional, its schema is an object
\* with a title that is not nullable, and its default is null
MemberOfRoot == input[RootNode].properties[1][1].node
NullDefaultOnNamedObject ==
    /\ typeOfSchema(input[RootNode]) = Ok("NAMED_SCHEMA")
    /\ HasProperties(input[RootNode], 1)
    /\ "a" \notin RequiredOf(input[RootNode])
    /\ typeOfSchema(input[MemberOfRoot]) = Ok("NAMED_SCHEMA")
    /\ input[MemberOfRoot].title # <<>>
    /\ input[MemberOfRoot].default = JNull
    /\ ~input[MemberOfRoot].nullable
    /\ isTypeNullable(input[MemberOfRoot]) = Ok(FALSE)
    /\ \A q \in PropsOf(input[MemberOfRoot]) : input[q.node].default # Undefined

\* C30 as stated: an optional member with default null whose schema is a
\* named object is accepted when that object is parsed in full before the
\* default is checked, and also when it is the root itself, whose AST is
\* still the unfilled object of the cache.
C30_AsClaimed ==
    (NullDefaultOnNamedObject /\ Finished) => pc = "done"

(***************************************************************************)
(* Claims about generate (Spec)                                            *)
(***************************************************************************)
RECURSIVE AstReach(_, _)
AstReach(frontier, seen) ==
    LET next == UNION {Range(heap[a].params) : a \in frontier} \ seen
    IN  IF next = {} THEN seen ELSE AstReach(next, seen \cup next)

\* the ASTs of the tree that parse returned
AstOfResult == AstReach({result}, {result})

\* the places where AST a is a child: two of them are two paths to it
PlacesOf(a) ==
    UNION {{<<b, j>> : j \in {k \in DOMAIN heap[b].params : heap[b].params[k] = a}} :
              b \in AstOfResult}

\* how often the text declares AST a
Declarations(a) == Cardinality({j \in DOMAIN emitted : emitted[j].ast = a})

\* C7 as stated, its half 'never twice': in the text that generate returns
\* no named AST node that is reachable from the root by two paths is
\* declared more than once, also when it is a member of a named union.
C7_AsClaimed ==
    gpc = "done" =>
        \A a \in AstOfResult :
            (hasStandaloneName(heap[a]) /\ Cardinality(PlacesOf(a)) >= 2) => Declarations(a) <= 1

\* C7 holds wherever generateUnionChildren has declared nothing: the
\* processed set of one pass keeps every other node to one declaration
C7_ExceptUnionChildren ==
    gpc = "done" =>
        \A a \in AstOfResult :
            Declarations(a) >= 2 =>
                /\ hasInternalStandaloneName(heap[a])
                /\ \E u \in AstOfResult :
                      /\ heap[u].type = "UNION" /\ hasStandaloneName(heap[u])
                      /\ Cardinality({j \in DOMAIN heap[u].params : heap[u].params[j] = a}) >= 2

\* C28 as stated: generate returns, or throws one of its own errors, for
\* every AST that parse has returned, cyclic ones too: the rendering of a
\* type is never entered again and again until the call stack overflows.
C28_AsClaimed ==
    gpc \in {"done", "failed"} => gerr # "RangeError"

(***************************************************************************)
(* SpecGenerate: compile applied to one named schema whose children are    *)
(* leaves and named objects                                                *)
(***************************************************************************)
\* the largest number of children of the root
MaxItems == 3

\* the children of the root are the nodes 2, 3, ...: a string, a named
\* object without properties, a number, and so on
ChildNodes == 2..(MaxItems + 1)
ChildNode(i) ==
    CASE (i - 2) % 3 = 0 -> Leaf(<<>>, TString)
      [] (i - 2) % 3 = 1 -> Shape("object", <<Titles[i]>>, <<>>)
      [] OTHER -> Leaf(<<>>, TypeStr(<<"number">>))

GraphOf(root, children) == [i \in 1..(MaxItems + 1) |-> IF i = 1 THEN root ELSE children[i]]
PlainChildren == [i \in ChildNodes |-> ChildNode(i)]

\* {title: 'Root', type: 'array', items: [...], minItems: m, maxItems: n}
TupleGraphs ==
    {GraphOf([Shape("tuple", <<"Root">>, kids) EXCEPT !.minItems = m, !.maxItems = Len(kids)],
             PlainChildren) :
        kids \in SeqsUpTo(ChildNodes, MaxItems), m \in 0..MaxItems}

\* the children of a union: null, a string or an object with a title, a
\* string without one, null with a title
MemberKinds == {"null", "namedString", "namedObject", "string", "namedNull"}
MemberNode(kind, i) ==
    CASE kind = "null" -> Leaf(<<>>, TypeStr(StrNull))
      [] kind = "namedString" -> Leaf(<<Titles[i]>>, TString)
      [] kind = "namedObject" -> Shape("object", <<Titles[i]>>, <<>>)
      [] kind = "string" -> Leaf(<<>>, TString)
      [] kind = "namedNull" -> Leaf(<<Titles[i]>>, TypeStr(StrNull))

\* the child lists of the root: the first k children in their order, and
\* lists that hold the first child twice
MemberLists ==
    {[j \in 1..k |-> j + 1] : k \in 0..MaxItems}
    \cup {<<2, 2>>} \cup {[j \in 1..MaxItems |-> IF j = MaxItems THEN 2 ELSE j + 1]}

\* {title: 'Root', anyOf: [...]} and {title: 'Root', oneOf: [...]}
UnionGraphs ==
    {GraphOf(Shape(k, <<"Root">>, kids), [i \in ChildNodes |-> MemberNode(kinds[i], i)]) :
        k \in {"anyOf", "oneOf"}, kids \in MemberLists, kinds \in [ChildNodes -> MemberKinds]}

\* the members of an intersection: an object without a title that has one
\* property (optional with a default, or required), one that has none, an
\* object with a title, a string
PartKinds == {"optional", "required", "empty", "named", "string"}
OwnNode == MaxItems + 2
KeyOf(i) == Keys[(i % 2) + 1]
PartNode(kind, i) ==
    CASE kind = "optional" ->
            [Shape("object", <<>>, <<>>) EXCEPT !.properties = Some(<<[key |-> KeyOf(i), node |-> OwnNode]>>)]
      [] kind = "required" ->
            [Shape("object", <<>>, <<>>) EXCEPT !.properties = Some(<<[key |-> KeyOf(i), node |-> OwnNode]>>),
                                                !.required = Some(<<KeyOf(i)>>)]
      [] kind = "empty" -> Shape("object", <<>>, <<>>)
      [] kind = "named" -> Shape("object", <<Titles[i]>>, <<>>)
      [] kind = "string" -> Leaf(<<>>, TString)

\* {title: 'Root', allOf: [...]}; the property of every member is the
\* number {type: 'number', default: 16}
IntersectionGraphs ==
    {[i \in 1..OwnNode |->
         IF i = 1 THEN Shape("allOf", <<"Root">>, kids)
         ELSE IF i = OwnNode THEN [Leaf(<<>>, TypeStr(<<"number">>)) EXCEPT !.default = Val("number", 16)]
         ELSE PartNode(kinds[i], i)] :
        kids \in MemberLists, kinds \in [ChildNodes -> PartKinds]}

\* the properties of an object: a string, a number, a boolean, a nullable
\* string, an array of strings and a named object, each with a default
\* that parse accepts for it
FieldKinds == {"string", "number", "boolean", "nullable", "array", "person"}
InnerNode == MaxItems + 1
Sixteen == Val("number", 16)
FieldNode(kind, i) ==
    CASE kind = "string" -> [Leaf(<<>>, TString) EXCEPT !.default = Red]
      [] kind = "number" -> [Leaf(<<>>, TypeStr(<<"number">>)) EXCEPT !.default = Sixteen]
      [] kind = "boolean" -> [Leaf(<<>>, TypeStr(<<"boolean">>)) EXCEPT !.default = Val("boolean", 1)]
      [] kind = "nullable" -> [Leaf(<<>>, TypeStr(<<"string", ",", " ", "null">>)) EXCEPT !.default = JNull]
      [] kind = "array" -> [Shape("array", <<>>, <<InnerNode>>) EXCEPT !.default = Val("array", 0)]
      [] kind = "person" ->
            [Shape("object", <<Titles[i]>>, <<InnerNode>>) EXCEPT !.required = Some(<<>>), !.default = JNull]

\* {title: 'Root', type: 'object', properties: {a: ..., b: ...}, required:
\* [...]}; the inner node is {type: 'string', default: 'red'}
ObjectGraphs ==
    {[i \in 1..InnerNode |->
         IF i = 1 THEN [Shape("object", <<"Root">>, kids) EXCEPT !.required = Some(required)]
         ELSE IF i \in {2, 3} THEN FieldNode(kinds[i], i)
         ELSE [Leaf(<<>>, TString) EXCEPT !.default = Red]] :
        kids \in {<<2>>, <<2, 3>>, <<3, 2>>, <<2, 2>>},
        required \in {<<>>, <<"a">>, <<"b">>, <<"a", "b">>},
        kinds \in [{2, 3} -> FieldKinds]}

\* {title: 'Root', type: 'array', items: [...], additionalItems: {type:
\* 'number'}, minItems: 0, maxItems: n}: a tuple that declares additional
\* items, the last child
SpreadGraphs ==
    {GraphOf([Shape("tuple", <<"Root">>, kids) EXCEPT !.minItems = 0]
                 @@ [additionalItems |-> Some(MaxItems + 1)],
             PlainChildren) :
        kids \in {<<2>>, <<2, 3>>}}

GeneratorGraphs ==
    TupleGraphs \cup UnionGraphs \cup IntersectionGraphs \cup ObjectGraphs \cup SpreadGraphs

InitGenerate ==
    /\ schema \in GeneratorGraphs
    /\ input = schema
    /\ processed = [n \in DOMAIN schema |-> 0]
    /\ litCache = {}
    /\ heap = <<>>
    /\ stack = <<>>
    /\ pc = "start"
    /\ err = NoErr
    /\ result = 0
    /\ runs = [n \in DOMAIN schema |-> 0]
    /\ returned = {}
    /\ GenerateIdle
    /\ ClassifyIdle
    /\ ValidateIdle
    /\ CompileIdle

SpecGenerate == InitGenerate /\ [][Next]_vars

(***************************************************************************)
(* Claims about the generated text (SpecGenerate)                          *)
(***************************************************************************)
\* generate has returned or thrown
GenerateOver == gpc \in {"done", "failed"}

\* the declarations of the root AST in the text
RootDeclarations == {j \in DOMAIN emitted : emitted[j].ast = result}
RootText == emitted[CHOOSE j \in RootDeclarations : TRUE].text

\* the type of 'export type Name = type;'
DeclaredType(text) ==
    SubSeq(text, 5, (CHOOSE j \in DOMAIN text :
                        text[j] = <<";">> /\ \A k \in DOMAIN text : text[k] = <<";">> => k <= j) - 1)

\* the pieces of a text between the tokens sep
RECURSIVE SplitAt(_, _, _, _)
SplitAt(text, sep, piece, pieces) ==
    IF text = <<>> THEN Append(pieces, piece)
    ELSE IF Head(text) = sep THEN SplitAt(Tail(text), sep, <<>>, Append(pieces, piece))
    ELSE SplitAt(Tail(text), sep, Append(piece, Head(text)), pieces)
Pieces(text, sep) == SplitAt(text, <<sep>>, <<>>, <<>>)

\* the type of an element that is a leaf or has a name
ElementType(a) ==
    IF hasStandaloneName(heap[a]) THEN <<heap[a].standaloneName>>
    ELSE CASE heap[a].type = "STRING" -> Tok("string")
           [] heap[a].type = "NUMBER" -> Tok("number")
           [] heap[a].type = "NULL" -> Tok("null")
           [] OTHER -> Tok("?")

RECURSIVE Listed(_)
Listed(types) ==
    IF types = <<>> THEN <<>>
    ELSE IF Len(types) = 1 THEN types[1]
    ELSE types[1] \o Tok(",") \o Listed(Tail(types))

\* the tuple type of the first k elements of the root
PrefixTuple(k) ==
    Tok("[") \o Listed([j \in 1..k |-> ElementType(heap[result].params[j])]) \o Tok("]")

RootIsTuple ==
    /\ pc = "done"
    /\ GenerateOver
    /\ heap[result].type = "TUPLE"
    /\ hasStandaloneName(heap[result])

\* C11: a tuple with minItems m and n element types, m < n, is rendered as
\* the union of n - m + 1 tuple types, the k-th of them the first m + k - 1
\* element types in their order (the first one [] when m = 0); no token of
\* the type marks an element as optional.
C11_PrefixUnion ==
    (RootIsTuple /\ heap[result].minItems < Len(heap[result].params)) =>
        /\ gpc = "done"
        /\ Cardinality(RootDeclarations) = 1
        /\ LET alternatives == Pieces(DeclaredType(RootText), "|")
               m == heap[result].minItems
           IN  /\ Len(alternatives) = Len(heap[result].params) - m + 1
               /\ \A k \in DOMAIN alternatives : alternatives[k] = PrefixTuple(m + k - 1)
               /\ \A k \in DOMAIN RootText : "?" \notin Range(RootText[k])

\* C11 witness: three elements and no minimum, rendered with [] first and
\* the tuple of all three last
C11_Witness ==
    /\ RootIsTuple
    /\ gpc = "done"
    /\ heap[result].minItems = 0
    /\ Len(heap[result].params) = 3
    /\ Len(Pieces(DeclaredType(RootText), "|")) = 4
    /\ Pieces(DeclaredType(RootText), "|")[1] = Tok("[") \o Tok("]")

\* C12 as stated: a tuple whose minItems equals the number of its element
\* types is generated, as the one tuple type of all its elements.
C12_AsClaimed ==
    (RootIsTuple /\ heap[result].minItems = Len(heap[result].params)) =>
        /\ gpc = "done"
        /\ Cardinality(RootDeclarations) = 1
        /\ DeclaredType(RootText) = PrefixTuple(Len(heap[result].params))

\* the schema declares additional items
DeclaresAdditionalItems(s) == "additionalItems" \in DOMAIN s /\ Has(s.additionalItems)

\* the text marks a repeatable element
SpreadMarked(text) == \E k \in DOMAIN text : "..." \in Range(text[k])

\* C24 as stated: the tuple AST of a bounded array that declares additional
\* items has a spread slot that holds the AST of the additional-items
\* schema, and the generated type marks a trailing repeatable element; the
\* type of a tuple without a spread slot has no such mark.
C24_AsClaimed ==
    RootIsTuple =>
        IF DeclaresAdditionalItems(input[RootNode])
        THEN /\ "spreadParam" \in DOMAIN heap[result]
             /\ gpc = "done"
             /\ SpreadMarked(RootText)
        ELSE gpc = "done" => ~SpreadMarked(RootText)

RootIsUnion ==
    /\ pc = "done"
    /\ GenerateOver
    /\ heap[result].type = "UNION"
    /\ hasStandaloneName(heap[result])

\* the members of the root, and what a member is rendered as
RootMembers == heap[result].params
IsNullMember(a) == heap[a].type = "NULL"
MemberText(a) == IF IsNullMember(a) THEN <<"null">> ELSE heap[a].standaloneName

\* how often the token is among the alternatives of the root's type
TimesIn(token, alternatives) ==
    Cardinality({j \in DOMAIN alternatives : alternatives[j] = <<token>>})

\* C13: a union is rendered only when each of its members is null or has a
\* name: a null member gives 'null', a named member its name, each member
\* one alternative; with a member that is neither, generate throws the
\* 'can only reference named interfaces' error and returns no text.
C13_UnionMembers ==
    RootIsUnion =>
        IF \E j \in DOMAIN RootMembers :
              ~IsNullMember(RootMembers[j]) /\ ~hasStandaloneName(heap[RootMembers[j]])
        THEN gpc = "failed" /\ gerr = "OnlyNamed" /\ emitted = <<>>
        ELSE /\ gpc = "done"
             /\ Cardinality(RootDeclarations) = 1
             /\ RootMembers # <<>> =>
                  LET alternatives == Pieces(DeclaredType(RootText), "|")
                  IN  /\ Len(alternatives) = Len(RootMembers)
                      /\ \A j \in DOMAIN RootMembers :
                            TimesIn(MemberText(RootMembers[j]), alternatives)
                              = Cardinality({i \in DOMAIN RootMembers :
                                     MemberText(RootMembers[i]) = MemberText(RootMembers[j])})

\* C13 witness: a union of null, a named string and a named object is
\* rendered, and a union with an unnamed string has thrown
C13_Witness ==
    /\ RootIsUnion
    /\ \/ /\ gpc = "done"
          /\ Len(RootMembers) = 3
          /\ \E j \in DOMAIN RootMembers : IsNullMember(RootMembers[j])
          /\ \E j \in DOMAIN RootMembers : heap[RootMembers[j]].type = "INTERFACE"
          /\ \E j \in DOMAIN RootMembers : heap[RootMembers[j]].type = "STRING"
       \/ /\ gpc = "failed"
          /\ \E j \in DOMAIN RootMembers :
                heap[RootMembers[j]].type = "STRING" /\ ~hasStandaloneName(heap[RootMembers[j]])

\* one null member among named members that are not null and differ
OneNullAmongNamed ==
    /\ RootIsUnion
    /\ Cardinality({j \in DOMAIN RootMembers : IsNullMember(RootMembers[j])}) = 1
    /\ \A j \in DOMAIN RootMembers :
          ~IsNullMember(RootMembers[j]) => hasStandaloneName(heap[RootMembers[j]])
    /\ \A i, j \in DOMAIN RootMembers : RootMembers[i] = RootMembers[j] => i = j

\* C14: in the type of a union of one null member and k named members,
\* 'null' is the last alternative wherever the null member stands among the
\* members, and every named member is an alternative exactly once.
C14_NullLast ==
    OneNullAmongNamed =>
        /\ gpc = "done"
        /\ LET alternatives == Pieces(DeclaredType(RootText), "|")
           IN  /\ Len(alternatives) = Len(RootMembers)
               /\ alternatives[Len(alternatives)] = Tok("null")
               /\ \A j \in DOMAIN RootMembers :
                     ~IsNullMember(RootMembers[j]) =>
                        TimesIn(heap[RootMembers[j]].standaloneName, alternatives) = 1

\* C14 witness: the null member is declared first, two named members
\* follow, and the text has it last
C14_Witness ==
    /\ OneNullAmongNamed
    /\ gpc = "done"
    /\ Len(RootMembers) = 3
    /\ IsNullMember(RootMembers[1])
    /\ Pieces(DeclaredType(RootText), "|")[3] = Tok("null")

RootIsIntersection ==
    /\ pc = "done"
    /\ GenerateOver
    /\ heap[result].type = "INTERSECTION"
    /\ hasStandaloneName(heap[result])

\* a member that the intersection can render: an object without a name
\* that has a property, or any member with a name
IsOwnObject(a) ==
    ~hasStandaloneName(heap[a]) /\ heap[a].type = "INTERFACE" /\ Len(heap[a].members) >= 1
Renderable(a) == IsOwnObject(a) \/ hasStandaloneName(heap[a])

\* C15 as stated: a named intersection none of whose members is an unnamed
\* object with a property or has a name (as the empty allOf) makes generate
\* fail with 'No members', and nothing is declared for it.
C15_AsClaimed ==
    (RootIsIntersection /\ \A j \in DOMAIN RootMembers : ~Renderable(RootMembers[j])) =>
        /\ gpc = "failed"
        /\ gerr = "NoMembers"
        /\ RootDeclarations = {}

\* a text without the tokens that only separate lines and list entries
Unbroken(text) ==
    LET Kept(token) == token \notin {<<"\n">>, <<",\n">>} IN SelectSeq(text, Kept)

\* the texts of a sequence of texts, one after the other
RECURSIVE Flat(_)
Flat(texts) == IF texts = <<>> THEN <<>> ELSE Head(texts) \o Flat(Tail(texts))

\* the second 'export' of a declaration with a factory: where 'export const
\* make...' begins
FactoryAt(text) == CHOOSE j \in DOMAIN text : j > 1 /\ text[j] = <<"export">>
TypeOf(text) == Unbroken(SubSeq(text, 5, FactoryAt(text) - 1))
\* of the factory: what follows '=>'
ResultOf(text) ==
    Unbroken(SubSeq(text, (CHOOSE j \in DOMAIN text : text[j] = <<"=>">>) + 1, Len(text)))

\* the members of the unnamed objects of the root, and the named members
OwnMembers == Flat([j \in DOMAIN RootMembers |->
                       IF IsOwnObject(RootMembers[j]) THEN heap[RootMembers[j]].members ELSE <<>>])
NamedMembers ==
    LET Named(a) == hasStandaloneName(heap[a]) IN SelectSeq(RootMembers, Named)

\* key, '?' when optional, ':', type, '| null' when nullable
ExpectedMember(m) ==
    <<<<m.keyName>>>> \o (IF m.isRequired THEN <<>> ELSE Tok("?")) \o Tok(":")
        \o ElementType(m.ast) \o (IF m.isNullable THEN Tok("|") \o Tok("null") ELSE <<>>)

\* key: input.key, for an optional member: the default in place of undefined
ExpectedAssignment(m) ==
    <<<<m.keyName>>>> \o Tok(":")
        \o (IF m.isRequired THEN <<<<"input.", m.keyName>>>>
            ELSE <<<<"input.", m.keyName>>>> \o Tok("===") \o Tok("undefined") \o Tok("?")
                    \o DefaultText(m.default) \o Tok(":") \o <<<<"input.", m.keyName>>>>)

\* every member is an unnamed object with a property or has a name, and
\* there is one of each
OwnAndNamed ==
    /\ RootIsIntersection
    /\ \A j \in DOMAIN RootMembers : Renderable(RootMembers[j])
    /\ \E j \in DOMAIN RootMembers : IsOwnObject(RootMembers[j])
    /\ \E j \in DOMAIN RootMembers : hasStandaloneName(heap[RootMembers[j]])

Before(text, t) == SubSeq(text, 1, (CHOOSE j \in DOMAIN text :
                                      text[j] = t /\ \A k \in 1..(j - 1) : text[k] # t) - 1)
After(text, t) == SubSeq(text, (CHOOSE j \in DOMAIN text :
                                   text[j] = t /\ \A k \in 1..(j - 1) : text[k] # t) + 1, Len(text))

\* texts with a separator between each two of them
RECURSIVE Separated(_, _)
Separated(texts, sep) ==
    IF texts = <<>> THEN <<>>
    ELSE IF Len(texts) = 1 THEN texts[1]
    ELSE texts[1] \o sep \o Separated(Tail(texts), sep)

\* key, '?' when the member is not required, ':', the type of the member,
\* '| null' when it is nullable
MarkedMember(m, type) ==
    <<<<m.keyName>>>> \o (IF m.isRequired THEN <<>> ELSE Tok("?")) \o Tok(":") \o type
        \o (IF m.isNullable THEN Tok("|") \o Tok("null") ELSE <<>>)

MarkedMembers(a, T, sep) ==
    Separated([j \in DOMAIN heap[a].members |->
                  MarkedMember(heap[a].members[j], generateType(T, heap, heap[a].members[j].ast).text)],
              sep)

\* the declaration of an interface up to the '=>' of its factory
InterfaceUpToResult(a, T) ==
    Tok("export") \o Tok("interface") \o <<heap[a].standaloneName>>
        \o Tok("{") \o NL \o MarkedMembers(a, T, NL) \o NL \o Tok("}") \o NL \o NL
        \o Tok("export") \o Tok("const") \o <<<<"make">> \o heap[a].standaloneName>> \o Tok("=")
        \o Tok("(") \o NL \o Tok("input:") \o Tok("{") \o NL \o MarkedMembers(a, T, Tok(",\n"))
        \o NL \o Tok("}") \o Tok(")") \o Tok(":") \o <<heap[a].standaloneName>>

InterfaceDeclarations == {j \in DOMAIN emitted : emitted[j].form = "interface"}

\* C17: what generate emits for a named object is an interface whose
\* members have '?' exactly when they are not required and '| null' exactly
\* when they are nullable, and right after it the factory make<Name>, whose
\* input lists the same members with the same marks and whose result type
\* is the interface.
C17_InterfaceAndFactory ==
    (pc = "done" /\ gpc = "done") =>
        \A j \in InterfaceDeclarations :
            \E engine \in Engines :
                Before(emitted[j].text, <<"=>">>)
                  = InterfaceUpToResult(emitted[j].ast, Rendered(heap, engine))

\* C17 witness: an interface of two members is emitted, one of them
\* required and not nullable, the other optional and nullable
C17_Witness ==
    /\ pc = "done"
    /\ gpc = "done"
    /\ \E j \in InterfaceDeclarations :
          LET members == heap[emitted[j].ast].members
          IN  /\ Len(members) = 2
              /\ \E k \in DOMAIN members : members[k].isRequired /\ ~members[k].isNullable
              /\ \E k \in DOMAIN members : ~members[k].isRequired /\ members[k].isNullable

\* the assignments of the factory of a declared interface, one per member:
\* what stands between '=> ({' and '})'
AssignmentsOf(text) ==
    LET body == After(text, <<"=>">>)
    IN  Pieces(SubSeq(body, 4, Len(body) - 4), ",\n")

\* the value of the text of a default as an expression of the factory
SyntaxError == Val("SyntaxError", 0)
ValueOf(expression) ==
    IF Len(expression) # 1 THEN SyntaxError
    ELSE CASE expression[1] = <<"'", "red", "'">> -> Red
           [] expression[1] = <<"'", "green", "'">> -> Green
           [] expression[1] = <<"0">> -> Val("number", 0)
           [] expression[1] = <<"16">> -> Sixteen
           [] expression[1] = <<"false">> -> Val("boolean", 0)
           [] expression[1] = <<"true">> -> Val("boolean", 1)
           [] expression[1] = <<"null">> -> JNull
           [] expression[1] = <<"undefined">> -> Undefined
           [] OTHER -> SyntaxError

\* what the assignment 'key: input.key' or 'key: input.key === undefined ?
\* default : input.key' gives the member for the input value v
Assigned(assignment, v) ==
    IF Len(assignment) = 3 THEN v
    ELSE IF ValueOf(SubSeq(assignment, 7, Len(assignment) - 2)) = SyntaxError THEN SyntaxError
    ELSE IF v = Undefined THEN ValueOf(SubSeq(assignment, 7, Len(assignment) - 2))
    ELSE v

\* the default that the schema declares for a member
DeclaredDefault(m) == IF m.default.t = "quoted" THEN Val("string", m.default.n) ELSE m.default

\* values an input can provide for a member
Provided == {Red, Green, Val("number", 0), Sixteen, Val("boolean", 0), JNull, Val("array", 0)}

RootIsInterface ==
    /\ pc = "done"
    /\ gpc = "done"
    /\ heap[result].type = "INTERFACE"
    /\ hasStandaloneName(heap[result])
    /\ Cardinality(RootDeclarations) = 1

\* C18 as stated: the factory gives an optional member its declared default
\* (a number, a boolean, a string, null, the empty array) when the input
\* omits the member and the provided value when the input has one; a
\* required member is copied from the input.
C18_AsClaimed ==
    RootIsInterface =>
        \A j \in DOMAIN heap[result].members :
            LET m == heap[result].members[j]
                assignment == AssignmentsOf(RootText)[j]
            IN  /\ \A v \in Provided : Assigned(assignment, v) = v
                /\ ~m.isRequired => Assigned(assignment, Undefined) = DeclaredDefault(m)

\* a member whose AST is a named object
IsNamedObject(m) == heap[m.ast].type = "INTERFACE" /\ hasStandaloneName(heap[m.ast])

\* C19 as stated: the factory of a named object builds every member that is
\* a named object by calling that object's factory on the member's input.
C19_AsClaimed ==
    RootIsInterface =>
        \A j \in DOMAIN heap[result].members :
            IsNamedObject(heap[result].members[j]) =>
                \E k \in DOMAIN AssignmentsOf(RootText)[j] :
                    AssignmentsOf(RootText)[j][k]
                      = <<"make">> \o heap[heap[result].members[j].ast].standaloneName

\* C19: the factory of a named object copies a member that is a named
\* object from the input, putting the member's default in place of an
\* omitted optional one; it calls no factory, so the defaults inside the
\* member are not filled in.
C19_CopiedNotBuilt ==
    RootIsInterface =>
        \A j \in DOMAIN heap[result].members :
            LET m == heap[result].members[j]
                assignment == AssignmentsOf(RootText)[j]
            IN  IsNamedObject(m) =>
                  /\ \A k \in DOMAIN assignment : Head(assignment[k]) # "make"
                  /\ \A v \in Provided : Assigned(assignment, v) = v
                  /\ assignment[3] = <<"input.", m.keyName>>
                  /\ m.isRequired <=> Len(assignment) = 3

\* C19 witness: a member of the root is a named object that has itself an
\* optional member with a default, and the factory of the root is emitted
C19_Witness ==
    /\ RootIsInterface
    /\ \E j \in DOMAIN heap[result].members :
          /\ IsNamedObject(heap[result].members[j])
          /\ \E k \in DOMAIN heap[heap[result].members[j].ast].members :
                ~heap[heap[result].members[j].ast].members[k].isRequired

(***************************************************************************)
(* validate: every rule applied to every node of a schema                  *)
(***************************************************************************)
\* the rules, in the order in which they were set
rules == <<"maxItems >= minItems", "maxItems >= 0", "minItems >= 0">>

\* what a rule returns for a schema: "true", "false", or "undefined" when
\* the numbers that it compares are not there
Returned(b) == IF b THEN "true" ELSE "false"
Rule(ruleName, s) ==
    CASE ruleName = rules[1] ->
            IF Has(s.maxItems) /\ Has(s.minItems) THEN Returned(s.maxItems[1] >= s.minItems[1])
            ELSE "undefined"
      [] ruleName = rules[2] ->
            IF Has(s.maxItems) THEN Returned(s.maxItems[1] >= 0) ELSE "undefined"
      [] ruleName = rules[3] ->
            IF Has(s.minItems) THEN Returned(s.minItems[1] >= 0) ELSE "undefined"

\* the nodes below node n and n itself, the children before their parent
RECURSIVE Visits(_, _, _)
Visits(S, n, i) ==
    IF i > Len(S) THEN <<n>>
    ELSE IF S[i].parent = n THEN Visits(S, i, i + 1) \o Visits(S, n, i + 1)
    ELSE Visits(S, n, i + 1)

\* mapDeep(schema, fn): the nodes in the order in which fn is called
mapDeep(S) == Visits(S, 1, 2)

\* if (rule(schema) === false) errors.push(...) with every error kept back
\* once there is one
Pushed_firstOnly(errs, outcome, key, ruleName, n) ==
    IF outcome = "false" /\ errs = <<>>
    THEN Append(errs, [key |-> key, ruleName |-> ruleName, node |-> n])
    ELSE errs

\* if (rule(schema) === false) errors.push(`Error at key "${key}" in file
\* "${filename}": ${ruleName}`); node tells the errors of two nodes apart
Pushed(errs, outcome, key, ruleName, n) ==
    IF outcome = "false" THEN Append(errs, [key |-> key, ruleName |-> ruleName, node |-> n])
    ELSE errs

\* the callback of mapDeep, called for the next node
CallRule ==
    /\ vpc = "running"
    /\ vtodo # <<>>
    /\ errors' = Pushed(errors, Rule(rules[vrule], vschema[Head(vtodo)]),
                        vschema[Head(vtodo)].key, rules[vrule], Head(vtodo))
    /\ vtodo' = Tail(vtodo)
    /\ UNCHANGED <<vschema, vrule, vpc, cvars, pvars, gvars, kvars>>

\* rules.forEach: mapDeep has returned, the next rule
NextRule ==
    /\ vpc = "running"
    /\ vtodo = <<>>
    /\ vrule < Len(rules)
    /\ vrule' = vrule + 1
    /\ vtodo' = mapDeep(vschema)
    /\ UNCHANGED <<vschema, errors, vpc, cvars, pvars, gvars, kvars>>

\* return errors
ReturnErrors ==
    /\ vpc = "running"
    /\ vtodo = <<>>
    /\ vrule = Len(rules)
    /\ vpc' = "done"
    /\ UNCHANGED <<vschema, errors, vrule, vtodo, cvars, pvars, gvars, kvars>>

NextValidate == CallRule \/ NextRule \/ ReturnErrors

\* the schemas handed to validate: trees of NumNodes nodes, every node
\* below an earlier one, under the key 'items', 'not' or
\* 'additionalProperties' of its parent
ChildKeys == <<"items", "not", "additionalProperties">>
ItemBounds ==
    {<<None, None>>, <<Some(0), Some(1)>>, <<Some(2), Some(1)>>, <<Some(-1), None>>,
     <<None, Some(-1)>>, <<Some(-1), Some(-2)>>}
Parents == {p \in [Nodes -> 0..NumNodes] : p[1] = 0 /\ \A i \in Nodes : i > 1 => p[i] \in 1..(i - 1)}
ValidatorSchemas ==
    {[i \in Nodes |->
         [minItems |-> b[i][1], maxItems |-> b[i][2], parent |-> p[i],
          key |-> IF i = 1 THEN "undefined"
                  ELSE ChildKeys[Cardinality({j \in 2..i : p[j] = p[i]})]]] :
        p \in Parents, b \in [Nodes -> ItemBounds]}

InitValidate ==
    /\ vschema \in ValidatorSchemas
    /\ errors = <<>>
    /\ vrule = 1
    /\ vtodo = mapDeep(vschema)
    /\ vpc = "running"
    /\ ParseIdle
    /\ ClassifyIdle
    /\ CompileIdle

SpecValidate == InitValidate /\ [][NextValidate]_vars

(***************************************************************************)
(* Claims about validate (SpecValidate)                                    *)
(***************************************************************************)
\* the node breaks the rule
Violates(r, n) ==
    LET min == vschema[n].minItems
        max == vschema[n].maxItems
    IN  CASE r = 1 -> min # <<>> /\ max # <<>> /\ max[1] < min[1]
          [] r = 2 -> max # <<>> /\ max[1] < 0
          [] r = 3 -> min # <<>> /\ min[1] < 0

ErrorsOf(r, n) == {j \in DOMAIN errors : errors[j].ruleName = rules[r] /\ errors[j].node = n}

\* C20: validate returns one error for every rule and node such that the
\* node breaks the rule and none for any other, so it goes on after the
\* first error, and it returns no error exactly when no node breaks a rule.
C20_EveryViolation ==
    vpc = "done" =>
        /\ \A r \in DOMAIN rules : \A n \in DOMAIN vschema :
              Cardinality(ErrorsOf(r, n)) = IF Violates(r, n) THEN 1 ELSE 0
        /\ errors = <<>> <=> \A r \in DOMAIN rules : \A n \in DOMAIN vschema : ~Violates(r, n)

\* C20 witness: validate has returned errors of two nodes and two rules
C20_Witness ==
    /\ vpc = "done"
    /\ \E i, j \in DOMAIN errors :
          errors[i].node # errors[j].node /\ errors[i].ruleName # errors[j].ruleName

(***************************************************************************)
(* compile (src/src/index.ts): validate, normalize, dereference, parse,    *)
(* generate, format.  The normalizer and the reference resolver are not    *)
(* modelled: each of them returns or throws, and what parse is handed is   *)
(* any of the schema graphs.                                               *)
(***************************************************************************)
\* if (errors.length) that never holds
Rejects_never(errs) == FALSE

\* if (errors.length) { errors.forEach(console.error); throw new Error() }
Rejects(errs) == Len(errs) > 0

\* format(code, {parser: 'typescript', ...}) when it returns: the tokens of
\* every declaration, laid out anew (the line breaks of the generator go)
format(code) ==
    [j \in DOMAIN code |-> SelectSeq(code[j].text, LAMBDA t : t # <<"\n">>)]

\* a stage that compile does not catch: it returns or it throws
Outcomes == {"returns", "throws"}

\* validate has returned: compile throws, or calls normalize
Normalize ==
    /\ kpc = "validate"
    /\ vpc = "done"
    /\ IF Rejects(errors)
       THEN kpc' = "rejected"
       ELSE \E o \in Outcomes : kpc' = IF o = "returns" THEN "normalized" ELSE "failed"
    /\ UNCHANGED <<compiled, cvars, pvars, gvars, vvars>>

\* the schemas that dereference resolves to
CompileGraphs ==
    TupleGraphs \cup ObjectGraphs
    \cup {GraphOf(Leaf(<<"Root">>, TypeStr(<<"any">>)), PlainChildren)}

\* await dereference(normalized, cwd, reader): it throws, or parse is called
\* with the schema it resolved to
Dereference ==
    /\ kpc = "normalized"
    /\ \E o \in Outcomes :
          IF o = "throws"
          THEN /\ kpc' = "failed"
               /\ UNCHANGED pvars
          ELSE /\ kpc' = "dereferenced"
               /\ schema' \in CompileGraphs
               /\ input' = schema'
               /\ processed' = [n \in DOMAIN schema' |-> 0]
               /\ runs' = [n \in DOMAIN schema' |-> 0]
               /\ pc' = "start"
               /\ UNCHANGED <<litCache, heap, stack, err, result, returned>>
    /\ UNCHANGED <<compiled, cvars, gvars, vvars>>

\* generate has returned the code: return format(code, ...), which throws
\* on text that is no TypeScript
Format ==
    /\ kpc = "dereferenced"
    /\ gpc = "done"
    /\ \E o \in Outcomes :
          IF o = "throws"
          THEN kpc' = "failed" /\ compiled' = compiled
          ELSE kpc' = "returned" /\ compiled' = Some(format(emitted))
    /\ UNCHANGED <<cvars, pvars, gvars, vvars>>

NextCompile ==
    \/ CallRule \/ NextRule \/ ReturnErrors
    \/ Normalize \/ Dereference
    \/ Start \/ VisitCached \/ VisitNew \/ Return
    \/ Generate \/ Format

\* the documents handed to compile: those of ValidatorSchemas in which every
\* node is the child of the node before it and only the first and the last
\* node have bounds
CompileDocuments ==
    {d \in ValidatorSchemas :
        \A i \in Nodes : /\ d[i].parent = i - 1
                         /\ (1 < i /\ i < NumNodes) => (d[i].minItems = None /\ d[i].maxItems = None)}

InitCompile ==
    /\ vschema \in CompileDocuments
    /\ errors = <<>>
    /\ vrule = 1
    /\ vtodo = mapDeep(vschema)
    /\ vpc = "running"
    /\ kpc = "validate"
    /\ compiled = None
    /\ ParseIdle
    /\ ClassifyIdle

SpecCompile == InitCompile /\ [][NextCompile]_vars

(***************************************************************************)
(* Claims about compile (SpecCompile)                                      *)
(***************************************************************************)
\* compile has thrown (its promise is rejected)
CompileFailed == kpc \in {"rejected", "failed"} \/ pc = "failed" \/ gpc = "failed"

\* C21: compile returns text only when validate returned no error and
\* normalize, dereference, parse and generate have all returned; no stage is
\* entered before the one before it has returned, after validation errors
\* neither normalize nor parse nor generate is entered, and in a run that
\* has failed, in whatever stage, nothing is returned.
C21_StagesInOrder ==
    /\ compiled # None =>
           /\ kpc = "returned" /\ vpc = "done" /\ errors = <<>>
           /\ pc = "done" /\ gpc = "done"
           /\ compiled = Some(format(emitted))
    /\ kpc \in {"normalized", "dereferenced", "returned", "failed"} => (vpc = "done" /\ errors = <<>>)
    /\ pc # "idle" => kpc \in {"dereferenced", "returned", "failed"}
    /\ gpc # "idle" => pc = "done"
    /\ kpc = "returned" => gpc = "done"
    /\ (vpc = "done" /\ errors # <<>>) =>
           (kpc \in {"validate", "rejected"} /\ pc = "idle" /\ gpc = "idle")
    /\ CompileFailed => compiled = None

\* C21 witness: one run has returned the text of a tuple, of which every
\* stage has returned
C21_Witness ==
    /\ compiled # None
    /\ Len(compiled[1]) > 0
    /\ vpc = "done" /\ pc = "done" /\ gpc = "done"

====
